---------------------------- MODULE Spec2Model ----------------------------
(***************************************************************************)
(* Model of the request handlers of 05_Backend_Mega_Project (controllers   *)
(* over a shared MongoDB store).  Every handler is an async function: it   *)
(* runs synchronously up to its first await and then one store operation   *)
(* at a time, so a request is a small process whose steps are the store    *)
(* operations it awaits.  Requests of different clients interleave at      *)
(* those awaits.                                                           *)
(***************************************************************************)
EXTENDS Integers, Sequences, FiniteSets, TLC

\* Number of requests issued in one behaviour of each specification (caps the
\* request counter).
MaxLikeReq == 3
MaxToggleReq == 5
MaxSubReq == 3
MaxSeqReq == 4
MaxGateReq == 2
MaxListReq == 3
MaxViewReq == 3
MaxPlaylistReq == 3
MaxOwnerReq == 2
MaxAuthReq == 4
MaxAccountReq == 3
MaxRegisterReq == 2
MaxOrphanReq == 3

\* Concurrent request slots: the handlers a process may have suspended at once.
Reqs == {1, 2}

\* Users of the store (every one exists) and a well-formed id of no user.
UserIds == {"u1", "u2", "u3"}
NoUserId == "u9"

\* Videos: v1 exists and is published, v2 exists and is not, v9 does not exist.
VideoIds == {"v1", "v2"}
NoVideoId == "v9"
CommentIds == {"c1"}
NoCommentId == "c9"
TweetIds == {"t1"}
NoTweetId == "t9"
PlaylistIds == {"p1"}
NoPlaylistId == "p9"

NoDoc == [exists |-> FALSE]

(***************************************************************************)
(* Identifiers in request parameters are strings.  A 24 digit hexadecimal  *)
(* string is a valid identifier in either letter case; both cases cast to  *)
(* the same ObjectId, and ObjectId.toString() gives the lower case form.   *)
(***************************************************************************)
Forms == {"lower", "upper"}
Malformed == [id |-> "bad", form |-> "none"]
HexStrings(ids) == [id : ids, form : Forms]

\* mongoose.Types.ObjectId.isValid(str)
IsValid(str) == str.form \in Forms
\* new mongoose.Types.ObjectId(str), and the cast mongoose applies to a query value
Cast(str) == str.id
\* ObjectId.prototype.toString()
IdToString(id) == [id |-> id, form |-> "lower"]

VARIABLES
    videos,     \* Video collection: VideoIds -> document or NoDoc
    comments,   \* Comment collection
    tweets,     \* Tweet collection
    playlists,  \* Playlist collection
    likes,      \* Like collection: a set of documents, each with its own _id
    subs,       \* Subscription collection: a set of documents
    req,        \* the suspended handlers: Reqs -> the handler's locals and position
    resp,       \* the response the last step sent, NoResp when it sent none
    nreq,       \* number of requests issued so far
    run,        \* observer: the current run of consecutive non-overlapping toggles of one pair
    served,     \* observer: VideoIds -> number of getVideoById requests answered with success
    users,      \* User collection: AccountIds -> document
    issued,     \* the refresh tokens issued so far (what clients may present)
    files,      \* the files of the temporary upload directory
    schema      \* the user schema of the deployment, Unknown until a handler depends on it

store == <<videos, comments, tweets, playlists, likes, subs>>
accounts == <<users, issued, files, schema>>
vars == <<videos, comments, tweets, playlists, likes, subs, req, resp, nreq, run, served, accounts>>

Idle == [pc |-> "idle"]
NoResp == [op |-> "none", status |-> 0]

InFlight(r) == req[r].pc # "idle"
Quiescent == \A r \in Reqs : ~InFlight(r)
\* A new request takes the first free slot (which slot it takes is immaterial).
FreeSlot(r) == ~InFlight(r) /\ \A q \in Reqs : q < r => InFlight(q)
\* A scope names the clients of a scenario, the number of requests they issue,
\* whether they wait for a response before the next request, and whether the
\* observer of toggle sequences is on.
CanStart(r, sc) ==
    /\ FreeSlot(r)
    /\ nreq < sc.maxReq
    /\ sc.sequential => Quiescent

\* An ApiError thrown inside asyncHandler, or a response sent with res.status(..).json(..).
Respond(r, data) ==
    /\ req' = [req EXCEPT ![r] = Idle]
    /\ resp' = data

ApiError(r, code) ==
    Respond(r, [op |-> req[r].op, actor |-> req[r].actor, target |-> req[r].target, status |-> code])

\* A request refused before its first await, or started with `locals`.
Begin(r, sc, refused, op, userId, param, locals) ==
    /\ nreq' = nreq + 1
    /\ UNCHANGED <<store, run, served, accounts>>
    /\ IF refused
       THEN /\ req' = req
            /\ resp' = [op |-> op, actor |-> userId, target |-> Cast(param), status |-> 400]
       ELSE /\ req' = [req EXCEPT ![r] = locals]
            /\ resp' = NoResp

\* A request body may carry an `owner` field no handler reads: absent unless the
\* scope names the values clients send.
BodyOwners(sc) == IF "bodyOwner" \in DOMAIN sc THEN sc.bodyOwner ELSE {"undef"}

\* Text fields of a request body: absent, the empty string, white space only, a text.
TextInputs == {"undef", "", "blank", "new"}
\* !x
Falsy(x) == x \in {"undef", ""}
\* x.trim()
Trim(x) == IF x = "blank" THEN "" ELSE x
\* !x || x.trim() === ""
IsBlank(x) == Falsy(x) \/ Trim(x) = ""

\* Mutant: the ownership check lets everyone through.
IsOwner_Anyone(doc, userId) == TRUE

\* doc.owner.toString() === req.user?._id.toString()
IsOwner(doc, userId) == IdToString(doc.owner) = IdToString(userId)

\* The least _id no document of the collection has and no suspended handler holds.
HeldIds == {req[q].existing : q \in {q \in Reqs : InFlight(q) /\ "existing" \in DOMAIN req[q]}}
NewId(docs) ==
    LET used == {d.id : d \in docs} \cup HeldIds
    IN  CHOOSE n \in 1..(Cardinality(used) + 1) : n \notin used /\ \A m \in 1..(n - 1) : m \in used

(***************************************************************************)
(* Observer of toggle sequences.  A pair is (kind, actor, target).  The    *)
(* run holds the results of up to three toggles of one pair that were      *)
(* executed one after the other, no other request on the pair being in     *)
(* flight from the start of the first to the end of the last.  It reads    *)
(* the store and the responses and never influences a handler.             *)
(***************************************************************************)
NoKey == [kind |-> "none"]
NoCur == [pre |-> 0, tpre |-> 0]
EmptyRun == [key |-> NoKey, items |-> <<>>, cur |-> NoCur, tq |-> TRUE]

ToggleOps == {"toggleVideoLike", "toggleCommentLike", "toggleTweetLike", "toggleSubscription"}
KindOf(op) ==
    CASE op = "toggleVideoLike" -> "video"
      [] op = "toggleCommentLike" -> "comment"
      [] op = "toggleTweetLike" -> "tweet"
      [] op = "toggleSubscription" -> "channel"
      [] OTHER -> "none"

IsToggle(q) == InFlight(q) /\ req[q].op \in ToggleOps
KeyOf(q) == [kind |-> KindOf(req[q].op), actor |-> req[q].actor, tgt |-> req[q].target]

\* Documents of the pair, and of the pair's target, in the store.
PairDocsIn(likeDocs, subDocs, key) ==
    IF key.kind = "channel"
    THEN {d \in subDocs : d.subscriber = key.actor /\ d.channel = key.tgt}
    ELSE {d \in likeDocs : d.kind = key.kind /\ d.target = key.tgt /\ d.likedBy = key.actor}
PairDocs(key) == PairDocsIn(likes, subs, key)
TargetDocs(key) ==
    IF key.kind = "channel"
    THEN {d \in subs : d.channel = key.tgt}
    ELSE {d \in likes : d.kind = key.kind /\ d.target = key.tgt}
Present(key) == PairDocs(key) # {}

Overlapping(r, key) == {q \in Reqs \ {r} : IsToggle(q) /\ KeyOf(q) = key}
OthersOnTarget(r, key) ==
    \E q \in Reqs \ {r} :
        /\ IsToggle(q)
        /\ KeyOf(q).kind = key.kind /\ KeyOf(q).tgt = key.tgt /\ KeyOf(q).actor # key.actor

SameTarget(k1, k2) == k1.kind # "none" /\ k1.kind = k2.kind /\ k1.tgt = k2.tgt

\* A toggle of pair `key` starts in slot r with locals `locals`.  When `observe`
\* is set the observer turns to the pair of the toggle started last.
StartToggle(r, key, locals, observe) ==
    LET over == Overlapping(r, key)
        noisy == SameTarget(run.key, key) /\ run.key # key
        cur == [pre |-> Cardinality(PairDocs(key)), tpre |-> Cardinality(TargetDocs(key))]
    IN  IF over # {}
        THEN /\ req' = [q \in Reqs |->
                          IF q = r THEN locals @@ [tracked |-> FALSE]
                          ELSE IF q \in over THEN [req[q] EXCEPT !.tracked = FALSE]
                          ELSE req[q]]
             /\ run' = IF run.key = key THEN EmptyRun
                       ELSE IF noisy THEN [run EXCEPT !.tq = FALSE] ELSE run
        ELSE IF run.key = key
        THEN /\ req' = [req EXCEPT ![r] = locals @@ [tracked |-> TRUE]]
             /\ run' = [run EXCEPT !.cur = cur]
        ELSE IF observe
        THEN /\ req' = [req EXCEPT ![r] = locals @@ [tracked |-> TRUE]]
             /\ run' = [key |-> key, items |-> <<>>, cur |-> cur, tq |-> ~OthersOnTarget(r, key)]
        ELSE /\ req' = [req EXCEPT ![r] = locals @@ [tracked |-> FALSE]]
             /\ run' = IF noisy THEN [run EXCEPT !.tq = FALSE] ELSE run

\* The last three items of the run with `item` appended.
Window(items, item) ==
    LET all == Append(items, item)
    IN  IF Len(all) > 3 THEN Tail(all) ELSE all

\* A toggle in slot r ends with `result` and `count` in its response.
EndToggle(r, result, count) ==
    run' = IF req[r].tracked /\ run.key = KeyOf(r)
           THEN [run EXCEPT !.items = Window(run.items,
                    [pre |-> run.cur.pre, tpre |-> run.cur.tpre,
                     post |-> Cardinality(PairDocs(KeyOf(r))),
                     res |-> result, cnt |-> count])]
           ELSE run

(***************************************************************************)
(* Like collection.  The Like schema is not part of the sources; following *)
(* the specification (section 5) it carries no unique index, so create     *)
(* inserts whatever it is given.                                           *)
(***************************************************************************)
\* Like.findOne({<kind>: target, likedBy: userId}): the documents it may return
LikeFindOne(kind, target, userId) ==
    {d \in likes : d.kind = kind /\ d.target = target /\ d.likedBy = userId}

\* Like.create({<kind>: target, likedBy: userId})
LikeCreate(kind, target, userId) ==
    likes \cup {[id |-> NewId(likes), kind |-> kind, target |-> target, likedBy |-> userId]}

\* Mutant: the delete removes nothing.
LikeFindByIdAndDelete_Keep(id) == likes

\* Like.findByIdAndDelete(id)
LikeFindByIdAndDelete(id) == {d \in likes : d.id # id}

\* Mutant: the count loses its filter.
LikeCountDocuments_NoFilter(kind, target) == Cardinality(likes)

\* Like.countDocuments({<kind>: target})
LikeCountDocuments(kind, target) ==
    Cardinality({d \in likes : d.kind = kind /\ d.target = target})

NoLike == 0

(***************************************************************************)
(* toggleVideoLike / toggleCommentLike / toggleTweetLike                   *)
(***************************************************************************)
\* The handler up to its first await: the id check, then the target lookup is issued.
ToggleLikeStart(r, sc, op, userId, param, firstPc) ==
    /\ nreq' = nreq + 1
    /\ UNCHANGED <<store, served, accounts>>
    /\ IF ~IsValid(param)
       THEN /\ req' = req
            /\ resp' = [op |-> op, actor |-> userId, target |-> Cast(param), status |-> 400]
            /\ run' = run
       ELSE /\ StartToggle(r, [kind |-> KindOf(op), actor |-> userId, tgt |-> Cast(param)],
                           [op |-> op, actor |-> userId, target |-> Cast(param),
                            pc |-> firstPc, existing |-> NoLike, result |-> FALSE], sc.observe)
            /\ resp' = NoResp

\* existingLike = await Like.findOne(...)
ToggleLikeFindOne(r, op) ==
    /\ req[r].pc = "findOne" /\ req[r].op = op
    /\ LET found == LikeFindOne(KindOf(op), req[r].target, req[r].actor)
       IN  \/ /\ found = {}
              /\ req' = [req EXCEPT ![r].pc = "write", ![r].existing = NoLike]
           \/ \E d \in found :
                 req' = [req EXCEPT ![r].pc = "write", ![r].existing = d.id]
    /\ resp' = NoResp
    /\ UNCHANGED <<store, nreq, run, served, accounts>>

\* if (existingLike) findByIdAndDelete, likeStatus = false; else create, likeStatus = true
ToggleLikeWrite(r, op) ==
    /\ req[r].pc = "write" /\ req[r].op = op
    /\ IF req[r].existing # NoLike
       THEN /\ likes' = LikeFindByIdAndDelete(req[r].existing)
            /\ req' = [req EXCEPT ![r].pc = "count", ![r].result = FALSE]
       ELSE /\ likes' = LikeCreate(KindOf(op), req[r].target, req[r].actor)
            /\ req' = [req EXCEPT ![r].pc = "count", ![r].result = TRUE]
    /\ resp' = NoResp
    /\ UNCHANGED <<videos, comments, tweets, playlists, subs, nreq, run, served, accounts>>

\* likeCount = await Like.countDocuments(...); the 200 response
ToggleLikeCount(r, op) ==
    /\ req[r].pc = "count" /\ req[r].op = op
    /\ LET likeCount == LikeCountDocuments(KindOf(op), req[r].target)
       IN  /\ Respond(r, [op |-> op, actor |-> req[r].actor, status |-> 200,
                          target |-> req[r].target, liked |-> req[r].result,
                          likeCount |-> likeCount])
           /\ EndToggle(r, req[r].result, likeCount)
           /\ served' = served
    /\ UNCHANGED <<store, nreq, accounts>>

ToggleVideoLike_Start(r, sc) ==
    /\ CanStart(r, sc)
    /\ \E userId \in sc.users, videoId \in HexStrings(VideoIds \cup {NoVideoId}) \cup {Malformed}:
        ToggleLikeStart(r, sc, "toggleVideoLike", userId, videoId, "findById")

\* video = await Video.findById(videoId); 404 when missing, 403 when unpublished
ToggleVideoLike_FindById(r) ==
    /\ req[r].pc = "findById" /\ req[r].op = "toggleVideoLike"
    /\ UNCHANGED <<store, nreq, run, served, accounts>>
    /\ IF req[r].target \notin VideoIds \/ ~videos[req[r].target].exists
       THEN ApiError(r, 404)
       ELSE IF ~videos[req[r].target].isPublished
       THEN ApiError(r, 403)
       ELSE req' = [req EXCEPT ![r].pc = "findOne"] /\ resp' = NoResp

ToggleVideoLike_FindOne(r) == ToggleLikeFindOne(r, "toggleVideoLike")
ToggleVideoLike_Write(r) == ToggleLikeWrite(r, "toggleVideoLike")
ToggleVideoLike_Count(r) == ToggleLikeCount(r, "toggleVideoLike")

ToggleCommentLike_Start(r, sc) ==
    /\ CanStart(r, sc)
    /\ \E userId \in sc.users, commentId \in HexStrings(CommentIds \cup {NoCommentId}) \cup {Malformed}:
        ToggleLikeStart(r, sc, "toggleCommentLike", userId, commentId, "findById")

\* comment = await Comment.findById(commentId); 404 when missing
ToggleCommentLike_FindById(r) ==
    /\ req[r].pc = "findById" /\ req[r].op = "toggleCommentLike"
    /\ UNCHANGED <<store, nreq, run, served, accounts>>
    /\ IF req[r].target \notin CommentIds \/ ~comments[req[r].target].exists
       THEN ApiError(r, 404)
       ELSE req' = [req EXCEPT ![r].pc = "findOne"] /\ resp' = NoResp

ToggleCommentLike_FindOne(r) == ToggleLikeFindOne(r, "toggleCommentLike")
ToggleCommentLike_Write(r) == ToggleLikeWrite(r, "toggleCommentLike")
ToggleCommentLike_Count(r) == ToggleLikeCount(r, "toggleCommentLike")

ToggleTweetLike_Start(r, sc) ==
    /\ CanStart(r, sc)
    /\ \E userId \in sc.users, tweetId \in HexStrings(TweetIds \cup {NoTweetId}) \cup {Malformed}:
        ToggleLikeStart(r, sc, "toggleTweetLike", userId, tweetId, "findById")

\* tweet = await Tweet.findById(tweetId); 404 when missing
ToggleTweetLike_FindById(r) ==
    /\ req[r].pc = "findById" /\ req[r].op = "toggleTweetLike"
    /\ UNCHANGED <<store, nreq, run, served, accounts>>
    /\ IF req[r].target \notin TweetIds \/ ~tweets[req[r].target].exists
       THEN ApiError(r, 404)
       ELSE req' = [req EXCEPT ![r].pc = "findOne"] /\ resp' = NoResp

ToggleTweetLike_FindOne(r) == ToggleLikeFindOne(r, "toggleTweetLike")
ToggleTweetLike_Write(r) == ToggleLikeWrite(r, "toggleTweetLike")
ToggleTweetLike_Count(r) == ToggleLikeCount(r, "toggleTweetLike")

(***************************************************************************)
(* Subscription collection.  The Subscription schema is not part of the    *)
(* sources; following the specification (sections 5 and 9) it carries no   *)
(* unique index.                                                           *)
(***************************************************************************)
\* Subscription.findOne({subscriber, channel}): the documents it may return
SubscriptionFindOne(subscriberId, channel) ==
    {d \in subs : d.subscriber = subscriberId /\ d.channel = channel}

\* Subscription.create({subscriber, channel})
SubscriptionCreate(subscriberId, channel) ==
    subs \cup {[id |-> NewId(subs), subscriber |-> subscriberId, channel |-> channel]}

\* Subscription.findByIdAndDelete(id)
SubscriptionFindByIdAndDelete(id) == {d \in subs : d.id # id}

\* Mutant: the count loses its filter.
SubscriptionCountDocuments_NoFilter(channel) == Cardinality(subs)

\* Subscription.countDocuments({channel})
SubscriptionCountDocuments(channel) == Cardinality({d \in subs : d.channel = channel})

\* channelId.toString() === subscriberId.toString(): a comparison of strings
IsOwnChannel(channelId, subscriberId) == channelId = IdToString(subscriberId)

(***************************************************************************)
(* toggleSubscription                                                      *)
(***************************************************************************)
\* Up to the first await: the id check, the own-channel check, then User.findById is issued.
ToggleSubscription_Start(r, sc) ==
    /\ CanStart(r, sc)
    /\ \E subscriberId \in sc.users, channelId \in HexStrings(UserIds \cup {NoUserId}) \cup {Malformed}:
        /\ nreq' = nreq + 1
        /\ UNCHANGED <<store, served, accounts>>
        /\ IF ~IsValid(channelId) \/ IsOwnChannel(channelId, subscriberId)
           THEN /\ req' = req
                /\ resp' = [op |-> "toggleSubscription", actor |-> subscriberId,
                            target |-> Cast(channelId), status |-> 400]
                /\ run' = run
           ELSE /\ StartToggle(r, [kind |-> "channel", actor |-> subscriberId, tgt |-> Cast(channelId)],
                               [op |-> "toggleSubscription", actor |-> subscriberId,
                                target |-> Cast(channelId), pc |-> "findById",
                                existing |-> NoLike, result |-> FALSE], sc.observe)
                /\ resp' = NoResp

\* channel = await User.findById(channelId); 404 when missing
ToggleSubscription_FindById(r) ==
    /\ req[r].pc = "findById" /\ req[r].op = "toggleSubscription"
    /\ UNCHANGED <<store, nreq, run, served, accounts>>
    /\ IF req[r].target \notin UserIds
       THEN ApiError(r, 404)
       ELSE req' = [req EXCEPT ![r].pc = "findOne"] /\ resp' = NoResp

\* existingSubscription = await Subscription.findOne({subscriber, channel})
ToggleSubscription_FindOne(r) ==
    /\ req[r].pc = "findOne" /\ req[r].op = "toggleSubscription"
    /\ LET found == SubscriptionFindOne(req[r].actor, req[r].target)
       IN  \/ /\ found = {}
              /\ req' = [req EXCEPT ![r].pc = "write", ![r].existing = NoLike]
           \/ \E d \in found :
                 req' = [req EXCEPT ![r].pc = "write", ![r].existing = d.id]
    /\ resp' = NoResp
    /\ UNCHANGED <<store, nreq, run, served, accounts>>

\* if (existingSubscription) findByIdAndDelete, subscribed = false; else create, subscribed = true
ToggleSubscription_Write(r) ==
    /\ req[r].pc = "write" /\ req[r].op = "toggleSubscription"
    /\ IF req[r].existing # NoLike
       THEN /\ subs' = SubscriptionFindByIdAndDelete(req[r].existing)
            /\ req' = [req EXCEPT ![r].pc = "count", ![r].result = FALSE]
       ELSE /\ subs' = SubscriptionCreate(req[r].actor, req[r].target)
            /\ req' = [req EXCEPT ![r].pc = "count", ![r].result = TRUE]
    /\ resp' = NoResp
    /\ UNCHANGED <<videos, comments, tweets, playlists, likes, nreq, run, served, accounts>>

\* subscriberCount = await Subscription.countDocuments({channel}); the 200 response
ToggleSubscription_Count(r) ==
    /\ req[r].pc = "count" /\ req[r].op = "toggleSubscription"
    /\ LET subscriberCount == SubscriptionCountDocuments(req[r].target)
       IN  /\ Respond(r, [op |-> "toggleSubscription", actor |-> req[r].actor, status |-> 200,
                          target |-> req[r].target, subscribed |-> req[r].result,
                          subscriberCount |-> subscriberCount])
           /\ EndToggle(r, req[r].result, subscriberCount)
           /\ served' = served
    /\ UNCHANGED <<store, nreq, accounts>>

(***************************************************************************)
(* getVideoById                                                            *)
(***************************************************************************)
\* The $lookup of the likes of a video: from "likes", foreignField "video"
VideoLikesLookup(videoId) == {d \in likes : d.kind = "video" /\ d.target = videoId}

\* $in: [req.user?._id, "$likes.likedBy"]
IsLikedBy(userId, likeDocs) == userId \in {d.likedBy : d \in likeDocs}

GetVideoById_Start(r, sc) ==
    /\ CanStart(r, sc)
    /\ \E userId \in sc.users, videoId \in HexStrings(VideoIds \cup {NoVideoId}) \cup {Malformed} :
        Begin(r, sc, ~IsValid(videoId), "getVideoById", userId, videoId,
              [op |-> "getVideoById", actor |-> userId, target |-> Cast(videoId),
               pc |-> "findById", video |-> NoDoc])

\* video = await Video.findById(videoId); 404 when missing; a published video
\* gets video.views += 1 on the fetched document, to be saved
GetVideoById_FindById(r) ==
    /\ req[r].pc = "findById" /\ req[r].op = "getVideoById"
    /\ UNCHANGED <<store, nreq, run, served, accounts>>
    /\ IF req[r].target \notin VideoIds \/ ~videos[req[r].target].exists
       THEN ApiError(r, 404)
       ELSE /\ resp' = NoResp
            /\ LET video == videos[req[r].target]
               IN  IF video.isPublished
                   THEN req' = [req EXCEPT ![r].pc = "save",
                                           ![r].video = [video EXCEPT !.views = video.views + 1]]
                   ELSE req' = [req EXCEPT ![r].pc = "aggregate", ![r].video = video]

\* await video.save({validateBeforeSave: false}): writes the modified path, views;
\* saving a document that was deleted meanwhile throws (500)
GetVideoById_Save(r) ==
    /\ req[r].pc = "save" /\ req[r].op = "getVideoById"
    /\ UNCHANGED <<comments, tweets, playlists, likes, subs, nreq, run, served, accounts>>
    /\ IF ~videos[req[r].target].exists
       THEN ApiError(r, 500) /\ videos' = videos
       ELSE /\ videos' = [videos EXCEPT ![req[r].target].views = req[r].video.views]
            /\ req' = [req EXCEPT ![r].pc = "aggregate"]
            /\ resp' = NoResp

\* videoDetails = await Video.aggregate([...]); 404 when empty, else videoDetails[0]
GetVideoById_Aggregate(r) ==
    /\ req[r].pc = "aggregate" /\ req[r].op = "getVideoById"
    /\ UNCHANGED <<store, nreq, run, accounts>>
    /\ served' = IF videos[req[r].target].exists
                 THEN [served EXCEPT ![req[r].target] = @ + 1] ELSE served
    /\ IF ~videos[req[r].target].exists
       THEN ApiError(r, 404)
       ELSE LET video == videos[req[r].target]
                likeDocs == VideoLikesLookup(req[r].target)
            IN  Respond(r, [op |-> "getVideoById", actor |-> req[r].actor, status |-> 200,
                            target |-> req[r].target, owner |-> video.owner,
                            views |-> video.views, isPublished |-> video.isPublished,
                            likeCount |-> Cardinality(likeDocs),
                            isLiked |-> IsLikedBy(req[r].actor, likeDocs)])

(***************************************************************************)
(* updateVideo / deleteVideo / togglePublishStatus                         *)
(***************************************************************************)
Exists(coll, ids, id) == id \in ids /\ coll[id].exists

UpdateVideo_Start(r, sc) ==
    /\ CanStart(r, sc)
    /\ \E userId \in sc.users, videoId \in HexStrings(VideoIds \cup {NoVideoId}) \cup {Malformed},
       title \in TextInputs, description \in TextInputs, thumbnailLocalPath \in BOOLEAN,
       owner \in BodyOwners(sc) :
        Begin(r, sc, ~IsValid(videoId) \/ (Falsy(title) /\ Falsy(description) /\ ~thumbnailLocalPath),
              "updateVideo", userId, videoId,
              [op |-> "updateVideo", actor |-> userId, target |-> Cast(videoId), pc |-> "findById",
               title |-> title, description |-> description, thumbnail |-> thumbnailLocalPath,
               bodyOwner |-> owner])

\* video = await Video.findById(videoId); 404; 403 unless the owner; updateFields
UpdateVideo_FindById(r) ==
    /\ req[r].pc = "findById" /\ req[r].op = "updateVideo"
    /\ UNCHANGED <<store, nreq, run, served, accounts>>
    /\ IF ~Exists(videos, VideoIds, req[r].target)
       THEN ApiError(r, 404)
       ELSE IF ~IsOwner(videos[req[r].target], req[r].actor)
       THEN ApiError(r, 403)
       ELSE /\ req' = [req EXCEPT ![r].pc = IF req[r].thumbnail THEN "upload" ELSE "update"]
            /\ resp' = NoResp

\* thumbnailUploadResult = await uploadOnCloudinary(thumbnailLocalPath); 500 when it fails
UpdateVideo_Upload(r) ==
    /\ req[r].pc = "upload" /\ req[r].op = "updateVideo"
    /\ UNCHANGED <<store, nreq, run, served, accounts>>
    /\ \E uploaded \in BOOLEAN :
          IF uploaded
          THEN req' = [req EXCEPT ![r].pc = "update"] /\ resp' = NoResp
          ELSE ApiError(r, 500)

\* Mutant: the $set takes the owner of the request body along.
UpdateVideo_Update_SetsOwner(r) ==
    /\ req[r].pc = "update" /\ req[r].op = "updateVideo"
    /\ UNCHANGED <<comments, tweets, playlists, likes, subs, nreq, run, served, accounts>>
    /\ IF ~Exists(videos, VideoIds, req[r].target)
       THEN ApiError(r, 500) /\ videos' = videos
       ELSE /\ videos' = [videos EXCEPT ![req[r].target].owner =
                             IF req[r].bodyOwner = "undef" THEN @ ELSE req[r].bodyOwner]
            /\ Respond(r, [op |-> "updateVideo", actor |-> req[r].actor,
                           target |-> req[r].target, status |-> 200])

\* Video.findByIdAndUpdate(videoId, {$set: updateFields}, {new: true}); 500 when null
UpdateVideo_Update(r) ==
    /\ req[r].pc = "update" /\ req[r].op = "updateVideo"
    /\ UNCHANGED <<comments, tweets, playlists, likes, subs, nreq, run, served, accounts>>
    /\ IF ~Exists(videos, VideoIds, req[r].target)
       THEN ApiError(r, 500) /\ videos' = videos
       ELSE LET old == videos[req[r].target]
                new == [old EXCEPT
                          !.title = IF IsBlank(req[r].title) THEN old.title ELSE req[r].title,
                          !.description = IF IsBlank(req[r].description) THEN old.description
                                          ELSE req[r].description,
                          !.thumbnail = IF req[r].thumbnail THEN "new" ELSE old.thumbnail]
            IN  /\ videos' = [videos EXCEPT ![req[r].target] = new]
                /\ Respond(r, [op |-> "updateVideo", actor |-> req[r].actor,
                               target |-> req[r].target, status |-> 200])

DeleteVideo_Start(r, sc) ==
    /\ CanStart(r, sc)
    /\ \E userId \in sc.users, videoId \in HexStrings(VideoIds \cup {NoVideoId}) \cup {Malformed} :
        Begin(r, sc, ~IsValid(videoId), "deleteVideo", userId, videoId,
              [op |-> "deleteVideo", actor |-> userId, target |-> Cast(videoId), pc |-> "findById"])

\* Mutant: a missing video is answered like somebody else's.
DeleteVideo_FindById_Forbidden(r) ==
    /\ req[r].pc = "findById" /\ req[r].op = "deleteVideo"
    /\ UNCHANGED <<store, nreq, run, served, accounts>>
    /\ IF ~Exists(videos, VideoIds, req[r].target) \/ ~IsOwner(videos[req[r].target], req[r].actor)
       THEN ApiError(r, 403)
       ELSE req' = [req EXCEPT ![r].pc = "delete"] /\ resp' = NoResp

DeleteVideo_FindById(r) ==
    /\ req[r].pc = "findById" /\ req[r].op = "deleteVideo"
    /\ UNCHANGED <<store, nreq, run, served, accounts>>
    /\ IF ~Exists(videos, VideoIds, req[r].target)
       THEN ApiError(r, 404)
       ELSE IF ~IsOwner(videos[req[r].target], req[r].actor)
       THEN ApiError(r, 403)
       ELSE req' = [req EXCEPT ![r].pc = "delete"] /\ resp' = NoResp

\* Mutant: the delete takes the Likes of the video along.
DeleteVideo_Delete_Cascade(r) ==
    /\ req[r].pc = "delete" /\ req[r].op = "deleteVideo"
    /\ UNCHANGED <<comments, tweets, playlists, subs, nreq, run, served, accounts>>
    /\ IF ~Exists(videos, VideoIds, req[r].target)
       THEN ApiError(r, 500) /\ videos' = videos /\ likes' = likes
       ELSE /\ videos' = [videos EXCEPT ![req[r].target] = NoDoc]
            /\ likes' = {d \in likes : ~(d.kind = "video" /\ d.target = req[r].target)}
            /\ Respond(r, [op |-> "deleteVideo", actor |-> req[r].actor,
                           target |-> req[r].target, status |-> 200])

\* Video.findByIdAndDelete(videoId); 500 when null; nothing else is deleted
DeleteVideo_Delete(r) ==
    /\ req[r].pc = "delete" /\ req[r].op = "deleteVideo"
    /\ UNCHANGED <<comments, tweets, playlists, likes, subs, nreq, run, served, accounts>>
    /\ IF ~Exists(videos, VideoIds, req[r].target)
       THEN ApiError(r, 500) /\ videos' = videos
       ELSE /\ videos' = [videos EXCEPT ![req[r].target] = NoDoc]
            /\ Respond(r, [op |-> "deleteVideo", actor |-> req[r].actor,
                           target |-> req[r].target, status |-> 200])

TogglePublishStatus_Start(r, sc) ==
    /\ CanStart(r, sc)
    /\ \E userId \in sc.users, videoId \in HexStrings(VideoIds \cup {NoVideoId}) \cup {Malformed} :
        Begin(r, sc, ~IsValid(videoId), "togglePublishStatus", userId, videoId,
              [op |-> "togglePublishStatus", actor |-> userId, target |-> Cast(videoId),
               pc |-> "findById", isPublished |-> FALSE])

\* video = await Video.findById(videoId); 404; 403; video.isPublished = !video.isPublished
TogglePublishStatus_FindById(r) ==
    /\ req[r].pc = "findById" /\ req[r].op = "togglePublishStatus"
    /\ UNCHANGED <<store, nreq, run, served, accounts>>
    /\ IF ~Exists(videos, VideoIds, req[r].target)
       THEN ApiError(r, 404)
       ELSE IF ~IsOwner(videos[req[r].target], req[r].actor)
       THEN ApiError(r, 403)
       ELSE /\ req' = [req EXCEPT ![r].pc = "save",
                                  ![r].isPublished = ~videos[req[r].target].isPublished]
            /\ resp' = NoResp

\* await video.save({validateBeforeSave: false}): writes the modified path, isPublished
TogglePublishStatus_Save(r) ==
    /\ req[r].pc = "save" /\ req[r].op = "togglePublishStatus"
    /\ UNCHANGED <<comments, tweets, playlists, likes, subs, nreq, run, served, accounts>>
    /\ IF ~Exists(videos, VideoIds, req[r].target)
       THEN ApiError(r, 500) /\ videos' = videos
       ELSE /\ videos' = [videos EXCEPT ![req[r].target].isPublished = req[r].isPublished]
            /\ Respond(r, [op |-> "togglePublishStatus", actor |-> req[r].actor,
                           target |-> req[r].target, status |-> 200,
                           isPublished |-> req[r].isPublished])

(***************************************************************************)
(* updateTweet / deleteTweet                                               *)
(***************************************************************************)
UpdateTweet_Start(r, sc) ==
    /\ CanStart(r, sc)
    /\ \E userId \in sc.users, tweetId \in HexStrings(TweetIds \cup {NoTweetId}) \cup {Malformed},
       content \in TextInputs, owner \in BodyOwners(sc) :
        Begin(r, sc, ~IsValid(tweetId) \/ IsBlank(content), "updateTweet", userId, tweetId,
              [op |-> "updateTweet", actor |-> userId, target |-> Cast(tweetId), pc |-> "findById",
               content |-> content, bodyOwner |-> owner])

UpdateTweet_FindById(r) ==
    /\ req[r].pc = "findById" /\ req[r].op = "updateTweet"
    /\ UNCHANGED <<store, nreq, run, served, accounts>>
    /\ IF ~Exists(tweets, TweetIds, req[r].target)
       THEN ApiError(r, 404)
       ELSE IF ~IsOwner(tweets[req[r].target], req[r].actor)
       THEN ApiError(r, 403)
       ELSE req' = [req EXCEPT ![r].pc = "save"] /\ resp' = NoResp

\* tweet.content = content; await tweet.save()
UpdateTweet_Save(r) ==
    /\ req[r].pc = "save" /\ req[r].op = "updateTweet"
    /\ UNCHANGED <<videos, comments, playlists, likes, subs, nreq, run, served, accounts>>
    /\ IF ~Exists(tweets, TweetIds, req[r].target)
       THEN ApiError(r, 500) /\ tweets' = tweets
       ELSE /\ tweets' = [tweets EXCEPT ![req[r].target].content = req[r].content]
            /\ Respond(r, [op |-> "updateTweet", actor |-> req[r].actor,
                           target |-> req[r].target, status |-> 200])

DeleteTweet_Start(r, sc) ==
    /\ CanStart(r, sc)
    /\ \E userId \in sc.users, tweetId \in HexStrings(TweetIds \cup {NoTweetId}) \cup {Malformed} :
        Begin(r, sc, ~IsValid(tweetId), "deleteTweet", userId, tweetId,
              [op |-> "deleteTweet", actor |-> userId, target |-> Cast(tweetId), pc |-> "findById"])

DeleteTweet_FindById(r) ==
    /\ req[r].pc = "findById" /\ req[r].op = "deleteTweet"
    /\ UNCHANGED <<store, nreq, run, served, accounts>>
    /\ IF ~Exists(tweets, TweetIds, req[r].target)
       THEN ApiError(r, 404)
       ELSE IF ~IsOwner(tweets[req[r].target], req[r].actor)
       THEN ApiError(r, 403)
       ELSE req' = [req EXCEPT ![r].pc = "delete"] /\ resp' = NoResp

DeleteTweet_Delete(r) ==
    /\ req[r].pc = "delete" /\ req[r].op = "deleteTweet"
    /\ UNCHANGED <<videos, comments, playlists, likes, subs, nreq, run, served, accounts>>
    /\ IF ~Exists(tweets, TweetIds, req[r].target)
       THEN ApiError(r, 500) /\ tweets' = tweets
       ELSE /\ tweets' = [tweets EXCEPT ![req[r].target] = NoDoc]
            /\ Respond(r, [op |-> "deleteTweet", actor |-> req[r].actor,
                           target |-> req[r].target, status |-> 200])

(***************************************************************************)
(* updateComment / deleteComment                                           *)
(***************************************************************************)
UpdateComment_Start(r, sc) ==
    /\ CanStart(r, sc)
    /\ \E userId \in sc.users, commentId \in HexStrings(CommentIds \cup {NoCommentId}) \cup {Malformed},
       content \in TextInputs, owner \in BodyOwners(sc) :
        Begin(r, sc, ~IsValid(commentId) \/ IsBlank(content), "updateComment", userId, commentId,
              [op |-> "updateComment", actor |-> userId, target |-> Cast(commentId),
               pc |-> "findById", content |-> content, bodyOwner |-> owner])

\* Mutant: the owner of the comment's video may update the comment too.
UpdateComment_FindById_ParentOwner(r) ==
    /\ req[r].pc = "findById" /\ req[r].op = "updateComment"
    /\ UNCHANGED <<store, nreq, run, served, accounts>>
    /\ IF ~Exists(comments, CommentIds, req[r].target)
       THEN ApiError(r, 404)
       ELSE IF /\ ~IsOwner(comments[req[r].target], req[r].actor)
               /\ ~(\E v \in VideoIds : /\ v = comments[req[r].target].video
                                        /\ videos[v].exists
                                        /\ IsOwner(videos[v], req[r].actor))
       THEN ApiError(r, 403)
       ELSE req' = [req EXCEPT ![r].pc = "save"] /\ resp' = NoResp

\* comment = await Comment.findById(commentId); 404; 403 unless the comment's owner
UpdateComment_FindById(r) ==
    /\ req[r].pc = "findById" /\ req[r].op = "updateComment"
    /\ UNCHANGED <<store, nreq, run, served, accounts>>
    /\ IF ~Exists(comments, CommentIds, req[r].target)
       THEN ApiError(r, 404)
       ELSE IF ~IsOwner(comments[req[r].target], req[r].actor)
       THEN ApiError(r, 403)
       ELSE req' = [req EXCEPT ![r].pc = "save"] /\ resp' = NoResp

\* comment.content = content; await comment.save()
UpdateComment_Save(r) ==
    /\ req[r].pc = "save" /\ req[r].op = "updateComment"
    /\ UNCHANGED <<videos, tweets, playlists, likes, subs, nreq, run, served, accounts>>
    /\ IF ~Exists(comments, CommentIds, req[r].target)
       THEN ApiError(r, 500) /\ comments' = comments
       ELSE /\ comments' = [comments EXCEPT ![req[r].target].content = req[r].content]
            /\ req' = [req EXCEPT ![r].pc = "populate"]
            /\ resp' = NoResp

\* populatedComment = await Comment.findById(updatedComment._id).populate(...); the 200 response
UpdateComment_Populate(r) ==
    /\ req[r].pc = "populate" /\ req[r].op = "updateComment"
    /\ UNCHANGED <<store, nreq, run, served, accounts>>
    /\ Respond(r, [op |-> "updateComment", actor |-> req[r].actor,
                   target |-> req[r].target, status |-> 200])

DeleteComment_Start(r, sc) ==
    /\ CanStart(r, sc)
    /\ \E userId \in sc.users, commentId \in HexStrings(CommentIds \cup {NoCommentId}) \cup {Malformed} :
        Begin(r, sc, ~IsValid(commentId), "deleteComment", userId, commentId,
              [op |-> "deleteComment", actor |-> userId, target |-> Cast(commentId),
               pc |-> "findById", video |-> NoVideoId])

\* comment = await Comment.findById(commentId); 404; another actor than the
\* comment's owner has the comment's video looked up
DeleteComment_FindById(r) ==
    /\ req[r].pc = "findById" /\ req[r].op = "deleteComment"
    /\ UNCHANGED <<store, nreq, run, served, accounts>>
    /\ IF ~Exists(comments, CommentIds, req[r].target)
       THEN ApiError(r, 404)
       ELSE /\ resp' = NoResp
            /\ IF ~IsOwner(comments[req[r].target], req[r].actor)
               THEN req' = [req EXCEPT ![r].pc = "findVideoOfComment",
                                       ![r].video = comments[req[r].target].video]
               ELSE req' = [req EXCEPT ![r].pc = "delete"]

\* Mutant: the owner of the comment's video is refused like anyone else.
DeleteComment_FindVideo_Deny(r) ==
    /\ req[r].pc = "findVideoOfComment" /\ req[r].op = "deleteComment"
    /\ UNCHANGED <<store, nreq, run, served, accounts>>
    /\ ApiError(r, 403)

\* videoOfComment = await Video.findById(comment.video); 403 unless its owner
DeleteComment_FindVideo(r) ==
    /\ req[r].pc = "findVideoOfComment" /\ req[r].op = "deleteComment"
    /\ UNCHANGED <<store, nreq, run, served, accounts>>
    /\ IF ~Exists(videos, VideoIds, req[r].video) \/ ~IsOwner(videos[req[r].video], req[r].actor)
       THEN ApiError(r, 403)
       ELSE req' = [req EXCEPT ![r].pc = "delete"] /\ resp' = NoResp

\* Comment.findByIdAndDelete(commentId); 500 when null
DeleteComment_Delete(r) ==
    /\ req[r].pc = "delete" /\ req[r].op = "deleteComment"
    /\ UNCHANGED <<videos, tweets, playlists, likes, subs, nreq, run, served, accounts>>
    /\ IF ~Exists(comments, CommentIds, req[r].target)
       THEN ApiError(r, 500) /\ comments' = comments
       ELSE /\ comments' = [comments EXCEPT ![req[r].target] = NoDoc]
            /\ Respond(r, [op |-> "deleteComment", actor |-> req[r].actor,
                           target |-> req[r].target, status |-> 200])

(***************************************************************************)
(* Playlists.  playlist.videos is an array of ObjectIds; includes and      *)
(* indexOf are given the request's string and compare it with each         *)
(* element's string form.                                                  *)
(***************************************************************************)
RECURSIVE IndexOf(_, _, _)
IndexOf(arr, str, i) ==
    IF i > Len(arr) THEN -1
    ELSE IF IdToString(arr[i]) = str THEN i - 1
    ELSE IndexOf(arr, str, i + 1)

Includes(arr, str) == IndexOf(arr, str, 1) # -1

\* videos.pull(id): every element equal to the cast id goes
Pull(arr, id) == SelectSeq(arr, LAMBDA x : x # id)

PlaylistParams == HexStrings(PlaylistIds \cup {NoPlaylistId}) \cup {Malformed}
VideoParams == HexStrings(VideoIds \cup {NoVideoId}) \cup {Malformed}

\* playlist = await Playlist.findById(playlistId); 404; 403 unless the owner
PlaylistGate(r, op, nextPc) ==
    /\ req[r].pc = "findById" /\ req[r].op = op
    /\ UNCHANGED <<store, nreq, run, served, accounts>>
    /\ IF ~Exists(playlists, PlaylistIds, req[r].target)
       THEN ApiError(r, 404)
       ELSE IF ~IsOwner(playlists[req[r].target], req[r].actor)
       THEN ApiError(r, 403)
       ELSE req' = [req EXCEPT ![r].pc = nextPc] /\ resp' = NoResp

AddVideoToPlaylist_Start(r, sc) ==
    /\ CanStart(r, sc)
    /\ \E userId \in sc.users, playlistId \in PlaylistParams, videoId \in VideoParams :
        Begin(r, sc, ~IsValid(playlistId) \/ ~IsValid(videoId), "addVideoToPlaylist", userId, playlistId,
              [op |-> "addVideoToPlaylist", actor |-> userId, target |-> Cast(playlistId),
               pc |-> "findById", videoId |-> videoId, videos |-> <<>>])

AddVideoToPlaylist_FindById(r) ==
    /\ req[r].pc = "findById" /\ req[r].op = "addVideoToPlaylist"
    /\ UNCHANGED <<store, nreq, run, served, accounts>>
    /\ IF ~Exists(playlists, PlaylistIds, req[r].target)
       THEN ApiError(r, 404)
       ELSE IF ~IsOwner(playlists[req[r].target], req[r].actor)
       THEN ApiError(r, 403)
       ELSE /\ req' = [req EXCEPT ![r].pc = "findVideo",
                                  ![r].videos = playlists[req[r].target].videos]
            /\ resp' = NoResp

\* video = await Video.findById(videoId); 404; 400 unpublished; 400 already included
AddVideoToPlaylist_FindVideo(r) ==
    /\ req[r].pc = "findVideo" /\ req[r].op = "addVideoToPlaylist"
    /\ UNCHANGED <<store, nreq, run, served, accounts>>
    /\ IF ~Exists(videos, VideoIds, Cast(req[r].videoId))
       THEN ApiError(r, 404)
       ELSE IF ~videos[Cast(req[r].videoId)].isPublished
       THEN ApiError(r, 400)
       ELSE IF Includes(req[r].videos, req[r].videoId)
       THEN ApiError(r, 400)
       ELSE req' = [req EXCEPT ![r].pc = "save"] /\ resp' = NoResp

\* playlist.videos.push(videoId); await playlist.save(): a $push on the stored array
AddVideoToPlaylist_Save(r) ==
    /\ req[r].pc = "save" /\ req[r].op = "addVideoToPlaylist"
    /\ UNCHANGED <<videos, comments, tweets, likes, subs, nreq, run, served, accounts>>
    /\ IF ~Exists(playlists, PlaylistIds, req[r].target)
       THEN ApiError(r, 500) /\ playlists' = playlists
       ELSE /\ playlists' = [playlists EXCEPT ![req[r].target].videos = Append(@, Cast(req[r].videoId))]
            /\ Respond(r, [op |-> "addVideoToPlaylist", actor |-> req[r].actor,
                           target |-> req[r].target, status |-> 200])

RemoveVideoFromPlaylist_Start(r, sc) ==
    /\ CanStart(r, sc)
    /\ \E userId \in sc.users, playlistId \in PlaylistParams, videoId \in VideoParams :
        Begin(r, sc, ~IsValid(playlistId) \/ ~IsValid(videoId), "removeVideoFromPlaylist", userId,
              playlistId,
              [op |-> "removeVideoFromPlaylist", actor |-> userId, target |-> Cast(playlistId),
               pc |-> "findById", videoId |-> videoId])

\* findById; 404; 403; 404 when indexOf(videoId) is -1
RemoveVideoFromPlaylist_FindById(r) ==
    /\ req[r].pc = "findById" /\ req[r].op = "removeVideoFromPlaylist"
    /\ UNCHANGED <<store, nreq, run, served, accounts>>
    /\ IF ~Exists(playlists, PlaylistIds, req[r].target)
       THEN ApiError(r, 404)
       ELSE IF ~IsOwner(playlists[req[r].target], req[r].actor)
       THEN ApiError(r, 403)
       ELSE IF IndexOf(playlists[req[r].target].videos, req[r].videoId, 1) = -1
       THEN ApiError(r, 404)
       ELSE req' = [req EXCEPT ![r].pc = "save"] /\ resp' = NoResp

\* playlist.videos.pull(videoId); await playlist.save(): a $pull on the stored array
RemoveVideoFromPlaylist_Save(r) ==
    /\ req[r].pc = "save" /\ req[r].op = "removeVideoFromPlaylist"
    /\ UNCHANGED <<videos, comments, tweets, likes, subs, nreq, run, served, accounts>>
    /\ IF ~Exists(playlists, PlaylistIds, req[r].target)
       THEN ApiError(r, 500) /\ playlists' = playlists
       ELSE /\ playlists' = [playlists EXCEPT ![req[r].target].videos = Pull(@, Cast(req[r].videoId))]
            /\ Respond(r, [op |-> "removeVideoFromPlaylist", actor |-> req[r].actor,
                           target |-> req[r].target, status |-> 200])

DeletePlaylist_Start(r, sc) ==
    /\ CanStart(r, sc)
    /\ \E userId \in sc.users, playlistId \in PlaylistParams :
        Begin(r, sc, ~IsValid(playlistId), "deletePlaylist", userId, playlistId,
              [op |-> "deletePlaylist", actor |-> userId, target |-> Cast(playlistId),
               pc |-> "findById"])

DeletePlaylist_FindById(r) == PlaylistGate(r, "deletePlaylist", "delete")

\* Playlist.findByIdAndDelete(playlistId); 500 when null
DeletePlaylist_Delete(r) ==
    /\ req[r].pc = "delete" /\ req[r].op = "deletePlaylist"
    /\ UNCHANGED <<videos, comments, tweets, likes, subs, nreq, run, served, accounts>>
    /\ IF ~Exists(playlists, PlaylistIds, req[r].target)
       THEN ApiError(r, 500) /\ playlists' = playlists
       ELSE /\ playlists' = [playlists EXCEPT ![req[r].target] = NoDoc]
            /\ Respond(r, [op |-> "deletePlaylist", actor |-> req[r].actor,
                           target |-> req[r].target, status |-> 200])

UpdatePlaylist_Start(r, sc) ==
    /\ CanStart(r, sc)
    /\ \E userId \in sc.users, playlistId \in PlaylistParams,
       name \in TextInputs, description \in TextInputs, owner \in BodyOwners(sc) :
        Begin(r, sc, ~IsValid(playlistId) \/ (IsBlank(name) /\ IsBlank(description)),
              "updatePlaylist", userId, playlistId,
              [op |-> "updatePlaylist", actor |-> userId, target |-> Cast(playlistId),
               pc |-> "findById", name |-> name, description |-> description, bodyOwner |-> owner])

UpdatePlaylist_FindById(r) == PlaylistGate(r, "updatePlaylist", "update")

\* Playlist.findByIdAndUpdate(playlistId, {$set: updateFields}, {new: true}); 500 when null
UpdatePlaylist_Update(r) ==
    /\ req[r].pc = "update" /\ req[r].op = "updatePlaylist"
    /\ UNCHANGED <<videos, comments, tweets, likes, subs, nreq, run, served, accounts>>
    /\ IF ~Exists(playlists, PlaylistIds, req[r].target)
       THEN ApiError(r, 500) /\ playlists' = playlists
       ELSE LET old == playlists[req[r].target]
                new == [old EXCEPT
                          !.name = IF IsBlank(req[r].name) THEN old.name ELSE req[r].name,
                          !.description = IF req[r].description = "undef" THEN old.description
                                          ELSE req[r].description]
            IN  /\ playlists' = [playlists EXCEPT ![req[r].target] = new]
                /\ Respond(r, [op |-> "updatePlaylist", actor |-> req[r].actor,
                               target |-> req[r].target, status |-> 200])

(***************************************************************************)
(* Paginated listings.  Every listing builds an aggregation (the records   *)
(* of its filter, joined and sorted), hands it with the page and limit of  *)
(* the query to aggregatePaginate, and answers with one of three shapes.   *)
(***************************************************************************)
\* Values of the query parameters page and limit: absent, a text that is no
\* number, numerals, a numeral followed by text.
QueryNumbers == {"undef", "abc", "0", "-2", "1", "2", "3", "10", "2x"}
DefaultPage == "1"
DefaultLimit == "10"

\* const { page = 1, limit = 10 } = req.query
QueryDefault(x, d) == IF x = "undef" THEN d ELSE x

\* Mutant: parseInt gives 3 whatever it is given.
ParseInt_Three(x) == [nan |-> FALSE, n |-> 3]

\* parseInt(x, 10): the leading numeral, NaN when there is none
ParseInt(x) ==
    CASE x = "0" -> [nan |-> FALSE, n |-> 0]
      [] x = "-2" -> [nan |-> FALSE, n |-> -2]
      [] x = "1" -> [nan |-> FALSE, n |-> 1]
      [] x \in {"2", "2x"} -> [nan |-> FALSE, n |-> 2]
      [] x = "3" -> [nan |-> FALSE, n |-> 3]
      [] x = "10" -> [nan |-> FALSE, n |-> 10]
      [] OTHER -> [nan |-> TRUE, n |-> 0]

\* x > k for a number or NaN: every comparison with NaN is false
GreaterThan(x, k) == ~x.nan /\ x.n > k

\* options = { page: parseInt(page, 10), limit: parseInt(limit, 10), customLabels }
Options(page, limit) ==
    [page |-> ParseInt(QueryDefault(page, DefaultPage)),
     limit |-> ParseInt(QueryDefault(limit, DefaultLimit))]

\* The paginator coerces page and limit to positive integers, 1 and 10 by default.
Positive(x, d) == IF x.nan \/ x.n < 1 THEN d ELSE x.n
Min(a, b) == IF a < b THEN a ELSE b
CeilDiv(a, b) == (a + b - 1) \div b

\* Model.aggregatePaginate(aggregate, options) on the ordered result `seq` of
\* the aggregation: the window of the page and the bookkeeping of the total.
AggregatePaginate(seq, options) ==
    LET page == Positive(options.page, 1)
        limit == Positive(options.limit, 10)
        total == Len(seq)
        skip == (page - 1) * limit
    IN  [items |-> IF skip >= total THEN <<>> ELSE SubSeq(seq, skip + 1, Min(total, skip + limit)),
         totalItems |-> total,
         limit |-> limit,
         currentPage |-> page,
         totalPages |-> CeilDiv(total, limit),
         hasNextPage |-> page * limit < total,
         hasPrevPage |-> page > 1]

\* The orders a $sort on a field the model does not hold may give the records.
Orderings(S) ==
    {s \in [1..Cardinality(S) -> S] : \A i, j \in 1..Cardinality(S) : i # j => s[i] # s[j]}

\* The JSON array [] sent as the data of a response: it has no named field.
EmptyArray == [array |-> <<>>]

\* A query or route parameter that is absent.
NoParam == [id |-> "undef", form |-> "absent"]
Given(p) == p.form # "absent"

\* The tail of every listing: result = await Model.aggregatePaginate(aggregate,
\* options), then the three answers: no more items, nothing at all, the page.
\* root gives the document each record of the aggregation is shown as ($replaceRoot).
ListingPaginate(r, op, records, root) ==
    /\ req[r].pc = "aggregatePaginate" /\ req[r].op = op
    /\ UNCHANGED <<store, nreq, run, served, accounts>>
    /\ \E seq \in Orderings(records) :
        LET result == AggregatePaginate([i \in DOMAIN seq |-> root[seq[i]]],
                                        Options(req[r].page, req[r].limit))
            answer == [op |-> op, actor |-> req[r].actor, target |-> req[r].target,
                       status |-> 200, page |-> req[r].page, limit |-> req[r].limit,
                       filter |-> req[r].filter]
        IN  IF Len(result.items) = 0 /\ GreaterThan(ParseInt(QueryDefault(req[r].page, DefaultPage)), 1)
            THEN Respond(r, answer @@ [data |-> [items |-> <<>>, nextPage |-> "null"]])
            ELSE IF Len(result.items) = 0
            THEN Respond(r, answer @@ [data |-> EmptyArray])
            ELSE Respond(r, answer @@ [data |-> result])

\* A listing leaves the store as it is; where the scope says so it is the last
\* request of a scenario, after the requests that change the store.
CanList(r, sc) == CanStart(r, sc) /\ (sc.listLast => nreq + 1 = sc.maxReq)

\* The head of a listing: the id check, then the first await.
ListingStart(r, sc, op, userId, param, refused, firstPc, filter) ==
    /\ \E page \in QueryNumbers, limit \in QueryNumbers :
        Begin(r, sc, refused, op, userId, param,
              [op |-> op, actor |-> userId, target |-> Cast(param), pc |-> firstPc,
               page |-> page, limit |-> limit, filter |-> filter])

\* user = await User.findById(userId); 404 when missing
ListingFindUser(r, op) ==
    /\ req[r].pc = "findById" /\ req[r].op = op
    /\ UNCHANGED <<store, nreq, run, served, accounts>>
    /\ IF req[r].target \notin UserIds
       THEN ApiError(r, 404)
       ELSE req' = [req EXCEPT ![r].pc = "aggregatePaginate"] /\ resp' = NoResp

\* Only getLikedVideos reads req.user; the other listings answer every client alike.
Viewers == {"u1"}
UserParams == HexStrings({"u1", NoUserId}) \cup {Malformed}
NoFilter == [query |-> "undef", userId |-> NoParam]

\* getVideoComments: $match {video: videoId}; the video itself is not looked up
VideoCommentsPipeline(videoId) == {c \in CommentIds : comments[c].exists /\ comments[c].video = videoId}
GetVideoComments_Start(r, sc) ==
    /\ CanList(r, sc)
    /\ \E actor \in Viewers, videoId \in VideoParams :
        ListingStart(r, sc, "getVideoComments", actor, videoId, ~IsValid(videoId),
                     "aggregatePaginate", NoFilter)
GetVideoComments_Paginate(r) ==
    LET records == VideoCommentsPipeline(req[r].target)
    IN  ListingPaginate(r, "getVideoComments", records, [c \in records |-> c])

\* getAllVideos: $match {isPublished: true}, then the $regex of `query` on title
\* and description when given, then {owner: userId} when given
QueryInputs == {"undef", "", "old", "new"}
Regex(text, query) == text = query
\* Mutant: the aggregation takes every video, published or not, whatever the filters.
AllVideosPipeline_Unfiltered(query, userId) == {v \in VideoIds : videos[v].exists}

AllVideosPipeline(query, userId) ==
    {v \in VideoIds :
        /\ videos[v].exists /\ videos[v].isPublished
        /\ Falsy(query) \/ Regex(videos[v].title, query) \/ Regex(videos[v].description, query)
        /\ Given(userId) => videos[v].owner = Cast(userId)}
GetAllVideos_Start(r, sc) ==
    /\ CanList(r, sc)
    /\ \E actor \in Viewers, query \in QueryInputs, userId \in UserParams \cup {NoParam} :
        ListingStart(r, sc, "getAllVideos", actor, userId, Given(userId) /\ ~IsValid(userId),
                     "aggregatePaginate", [query |-> query, userId |-> userId])
GetAllVideos_Paginate(r) ==
    LET records == AllVideosPipeline(req[r].filter.query, req[r].filter.userId)
    IN  ListingPaginate(r, "getAllVideos", records, [v \in records |-> v])

\* getLikedVideos: $match {likedBy, video: {$exists: true}}, $lookup of the video,
\* $unwind (a like whose video is gone drops out), $replaceRoot to the video
LikedVideosPipeline(userId) ==
    {d \in likes : d.kind = "video" /\ d.likedBy = userId /\ Exists(videos, VideoIds, d.target)}
GetLikedVideos_Start(r, sc) ==
    /\ CanList(r, sc)
    /\ \E userId \in sc.users :
        ListingStart(r, sc, "getLikedVideos", userId, IdToString(userId), FALSE,
                     "aggregatePaginate", NoFilter)
GetLikedVideos_Paginate(r) ==
    LET records == LikedVideosPipeline(req[r].actor)
    IN  ListingPaginate(r, "getLikedVideos", records, [d \in records |-> d.target])

\* getUserTweets: User.findById, then $match {owner: userId}
UserTweetsPipeline(userId) == {t \in TweetIds : tweets[t].exists /\ tweets[t].owner = userId}
GetUserTweets_Start(r, sc) ==
    /\ CanList(r, sc)
    /\ \E actor \in Viewers, userId \in UserParams :
        ListingStart(r, sc, "getUserTweets", actor, userId, ~IsValid(userId), "findById", NoFilter)
GetUserTweets_FindById(r) == ListingFindUser(r, "getUserTweets")
GetUserTweets_Paginate(r) ==
    LET records == UserTweetsPipeline(req[r].target)
    IN  ListingPaginate(r, "getUserTweets", records, [t \in records |-> t])

\* getUserPlaylists: User.findById, then $match {owner: userId}
UserPlaylistsPipeline(userId) == {p \in PlaylistIds : playlists[p].exists /\ playlists[p].owner = userId}
GetUserPlaylists_Start(r, sc) ==
    /\ CanList(r, sc)
    /\ \E actor \in Viewers, userId \in UserParams :
        ListingStart(r, sc, "getUserPlaylists", actor, userId, ~IsValid(userId), "findById", NoFilter)
GetUserPlaylists_FindById(r) == ListingFindUser(r, "getUserPlaylists")
GetUserPlaylists_Paginate(r) ==
    LET records == UserPlaylistsPipeline(req[r].target)
    IN  ListingPaginate(r, "getUserPlaylists", records, [p \in records |-> p])

\* getUserChannelSubscribers: User.findById, then $match {channel: channelId},
\* $lookup and $unwind of the subscriber (a subscription of a user that is gone drops out)
ChannelSubscribersPipeline(channelId) == {d \in subs : d.channel = channelId /\ d.subscriber \in UserIds}
GetUserChannelSubscribers_Start(r, sc) ==
    /\ CanList(r, sc)
    /\ \E actor \in Viewers, channelId \in HexStrings({"u3", NoUserId}) \cup {Malformed} :
        ListingStart(r, sc, "getUserChannelSubscribers", actor, channelId, ~IsValid(channelId),
                     "findById", NoFilter)
GetUserChannelSubscribers_FindById(r) == ListingFindUser(r, "getUserChannelSubscribers")
GetUserChannelSubscribers_Paginate(r) ==
    LET records == ChannelSubscribersPipeline(req[r].target)
    IN  ListingPaginate(r, "getUserChannelSubscribers", records, [d \in records |-> d.subscriber])

\* getSubscribedChannels: User.findById, then $match {subscriber: subscriberId},
\* $lookup and $unwind of the channel
SubscribedChannelsPipeline(subscriberId) == {d \in subs : d.subscriber = subscriberId /\ d.channel \in UserIds}
GetSubscribedChannels_Start(r, sc) ==
    /\ CanList(r, sc)
    /\ \E actor \in Viewers, subscriberId \in UserParams :
        ListingStart(r, sc, "getSubscribedChannels", actor, subscriberId, ~IsValid(subscriberId),
                     "findById", NoFilter)
GetSubscribedChannels_FindById(r) == ListingFindUser(r, "getSubscribedChannels")
GetSubscribedChannels_Paginate(r) ==
    LET records == SubscribedChannelsPipeline(req[r].target)
    IN  ListingPaginate(r, "getSubscribedChannels", records, [d \in records |-> d.channel])

(***************************************************************************)
(* Users, sessions and the error middleware (user.controllers.js, app.js). *)
(* The user schema, the token issuer and asyncHandler are opaque           *)
(* collaborators: a refresh token is a signed value naming its user,       *)
(* every issue gives a new one, and an error thrown in a handler reaches   *)
(* the error middleware of app.js.                                         *)
(***************************************************************************)
\* Ids the store gives to the users registered during a behaviour.
NewUserIds == {"u4", "u5", "u6"}
AccountIds == UserIds \cup NewUserIds

\* String.prototype.toLowerCase() on the names and addresses clients send
ToLowerCase(x) ==
    CASE x = "Dave" -> "dave"
      [] x = "Alice" -> "alice"
      [] x = "D@x" -> "d@x"
      [] x = "A@x" -> "a@x"
      [] OTHER -> x

\* An absent token: no cookie and no body field, or the unset field of a user.
NoToken == [sub |-> "none", serial |-> 0, signed |-> FALSE]
\* A token the server did not sign.
Forged == [sub |-> "u1", serial |-> 0, signed |-> FALSE]
\* user.generateRefreshToken(): jwt.sign({_id}, REFRESH_TOKEN_SECRET, ...)
GenerateRefreshToken(u) ==
    [sub |-> u, serial |-> Cardinality({t \in issued : t.sub = u}) + 1, signed |-> TRUE]
\* jwt.verify(token, REFRESH_TOKEN_SECRET) does not throw
Verifies(token) == token.signed

UserDoc(username, email) ==
    [exists |-> TRUE, username |-> username, email |-> email, fullName |-> "old",
     refreshToken |-> NoToken]
InitialUser(u) ==
    CASE u = "u1" -> UserDoc("alice", "a@x")
      [] u = "u2" -> UserDoc("bob", "b@x")
      [] u = "u3" -> UserDoc("carol", "c@x")
      [] OTHER -> NoDoc

\* Errors thrown in a handler: new ApiError(statusCode, message), or any other error.
Thrown(statusCode, message) == [isApiError |-> TRUE, statusCode |-> statusCode, message |-> message]
TypeError == [isApiError |-> FALSE, message |-> "Cannot read properties of undefined"]
DuplicateKey == [isApiError |-> FALSE, message |-> "E11000 duplicate key error"]

\* app.use((err, req, res, next) => ...): the body of the failure response
ErrorMiddleware(op, actor, err) ==
    IF err.isApiError
    THEN [op |-> op, actor |-> actor, status |-> err.statusCode, success |-> FALSE,
          message |-> err.message, errors |-> <<>>]
    ELSE [op |-> op, actor |-> actor, status |-> 500, success |-> FALSE,
          message |-> "Internal Server Error", errors |-> <<err.message>>]

\* A request of the user routes, refused before its first await or started.
Receive(r, refusal, locals) ==
    /\ nreq' = nreq + 1
    /\ UNCHANGED <<store, run, served>>
    /\ IF refusal.op # "none"
       THEN req' = req /\ resp' = refusal
       ELSE req' = [req EXCEPT ![r] = locals] /\ resp' = NoResp

\* The error of a suspended handler, answered by the error middleware.
Throw(r, err) == Respond(r, ErrorMiddleware(req[r].op, req[r].actor, err))

\* loginUser: 400 without email and username
LoginNames == {"undef", "alice", "bob", "zed"}
LoginEmails == {"undef", "a@x"}
Passwords == {"right", "wrong"}
LoginUser_Start(r, sc) ==
    /\ CanStart(r, sc)
    /\ UNCHANGED accounts
    /\ \E username \in LoginNames, email \in LoginEmails, password \in Passwords :
        Receive(r, IF Falsy(email) /\ Falsy(username)
                   THEN ErrorMiddleware("loginUser", "none", Thrown(400, "Email or username is required"))
                   ELSE NoResp,
                [op |-> "loginUser", actor |-> "none", pc |-> "findOne", username |-> username,
                 email |-> email, password |-> password, refreshToken |-> NoToken])

\* user = await User.findOne({$or: [{username}, {email}]}); 404 when null
LoginUser_FindOne(r) ==
    /\ req[r].pc = "findOne" /\ req[r].op = "loginUser"
    /\ UNCHANGED <<store, nreq, run, served, accounts>>
    /\ LET found == {u \in AccountIds : /\ users[u].exists
                                        /\ \/ users[u].username = req[r].username
                                           \/ users[u].email = req[r].email}
       IN  IF found = {}
           THEN Throw(r, Thrown(404, "User not found"))
           ELSE /\ \E u \in found : req' = [req EXCEPT ![r].pc = "isPasswordCorrect", ![r].actor = u]
                /\ resp' = NoResp

\* isPasswordValid = await user.isPasswordCorrect(password); 401 when false;
\* then generateAccessAndRefreshTokens(user._id) is called
LoginUser_IsPasswordCorrect(r) ==
    /\ req[r].pc = "isPasswordCorrect" /\ req[r].op = "loginUser"
    /\ UNCHANGED <<store, nreq, run, served, accounts>>
    /\ IF req[r].password # "right"
       THEN Throw(r, Thrown(401, "Invalid password"))
       ELSE /\ req' = [req EXCEPT ![r].pc = "generate"]
            /\ resp' = NoResp

\* generateAccessAndRefreshTokens: user = await User.findById(userId), the tokens
\* are generated and user.save() is called; a failure is an ApiError 500, which
\* refreshAccessToken catches and throws again as 401
GenerateAccessAndRefreshTokens_FindById(r) ==
    /\ req[r].pc = "generate"
    /\ UNCHANGED <<store, nreq, run, served, users, files, schema>>
    /\ IF req[r].actor \notin AccountIds \/ ~users[req[r].actor].exists
       THEN /\ Throw(r, Thrown(IF req[r].op = "refreshAccessToken" THEN 401 ELSE 500,
                               "Something went wrong while generating refresh and access tokens"))
            /\ issued' = issued
       ELSE /\ issued' = issued \cup {GenerateRefreshToken(req[r].actor)}
            /\ req' = [req EXCEPT ![r].pc = "save", ![r].refreshToken = GenerateRefreshToken(req[r].actor)]
            /\ resp' = NoResp

\* await user.save({validateBeforeSave: false}) writes the modified refreshToken.
\* loginUser goes on to its last query; refreshAccessToken answers 200, and its
\* destructuring {accessToken, newRefreshToken} of {accessToken, refreshToken}
\* leaves the refresh token of the response undefined.
GenerateAccessAndRefreshTokens_Save(r) ==
    /\ req[r].pc = "save"
    /\ UNCHANGED <<store, nreq, run, served, issued, files, schema>>
    /\ users' = IF users[req[r].actor].exists
                THEN [users EXCEPT ![req[r].actor].refreshToken = req[r].refreshToken]
                ELSE users
    /\ IF req[r].op = "refreshAccessToken"
       THEN Respond(r, [op |-> "refreshAccessToken", actor |-> req[r].actor, status |-> 200,
                        incoming |-> req[r].incoming, accessToken |-> TRUE, refreshToken |-> NoToken])
       ELSE /\ req' = [req EXCEPT ![r].pc = "tokens"]
            /\ resp' = NoResp

\* loggedInUser = await User.findById(user._id); the 200 response with both tokens
LoginUser_Respond(r) ==
    /\ req[r].pc = "tokens" /\ req[r].op = "loginUser"
    /\ UNCHANGED <<store, nreq, run, served, accounts>>
    /\ Respond(r, [op |-> "loginUser", actor |-> req[r].actor, status |-> 200,
                   accessToken |-> TRUE, refreshToken |-> req[r].refreshToken])

\* logoutUser, behind the authentication middleware
LogoutUser_Start(r, sc) ==
    /\ CanStart(r, sc)
    /\ UNCHANGED accounts
    /\ \E userId \in sc.users :
        Receive(r, NoResp, [op |-> "logoutUser", actor |-> userId, pc |-> "update"])

\* await User.findByIdAndUpdate(req.user.id, {$unset: {refreshToken: 1}}); the 200 response
LogoutUser_Update(r) ==
    /\ req[r].pc = "update" /\ req[r].op = "logoutUser"
    /\ UNCHANGED <<store, nreq, run, served, issued, files, schema>>
    /\ users' = IF users[req[r].actor].exists
                THEN [users EXCEPT ![req[r].actor].refreshToken = NoToken]
                ELSE users
    /\ Respond(r, [op |-> "logoutUser", actor |-> req[r].actor, status |-> 200])

\* refreshAccessToken: `const user = User.findById(decodedToken?._id)` is not
\* awaited, so `user` is the query object: it is truthy and has neither a
\* refreshToken nor an _id.
PendingQuery == [query |-> TRUE]
RefreshTokenOf(user) == IF "refreshToken" \in DOMAIN user THEN user.refreshToken ELSE NoToken
IdOf(user) == IF "_id" \in DOMAIN user THEN user._id ELSE "undef"

\* Mutant: every token the server signed is answered with new tokens.
RefreshAccessToken_AnySigned(r, sc) ==
    /\ CanStart(r, sc)
    /\ nreq' = nreq + 1
    /\ UNCHANGED <<store, run, served, files, schema, req>>
    /\ \E incomingRefreshToken \in issued \cup {NoToken, Forged} :
        IF Verifies(incomingRefreshToken)
        THEN /\ issued' = issued \cup {GenerateRefreshToken(incomingRefreshToken.sub)}
             /\ users' = [users EXCEPT ![incomingRefreshToken.sub].refreshToken =
                                            GenerateRefreshToken(incomingRefreshToken.sub)]
             /\ resp' = [op |-> "refreshAccessToken", actor |-> incomingRefreshToken.sub, status |-> 200,
                         incoming |-> incomingRefreshToken, accessToken |-> TRUE,
                         refreshToken |-> GenerateRefreshToken(incomingRefreshToken.sub)]
        ELSE /\ UNCHANGED <<users, issued>>
             /\ resp' = [op |-> "refreshAccessToken", actor |-> "none", status |-> 401,
                         incoming |-> incomingRefreshToken]

\* refreshAccessToken up to its first await: 401 without a token, 401 when
\* jwt.verify throws, 401 when the token differs from user?.refreshToken;
\* otherwise generateAccessAndRefreshTokens(user._id) is called.
RefreshAccessToken(r, sc) ==
    /\ CanStart(r, sc)
    /\ nreq' = nreq + 1
    /\ UNCHANGED <<store, run, served, accounts>>
    /\ \E incomingRefreshToken \in issued \cup {NoToken, Forged} :
        LET user == PendingQuery
            refused == \/ incomingRefreshToken = NoToken
                       \/ ~Verifies(incomingRefreshToken)
                       \/ incomingRefreshToken # RefreshTokenOf(user)
        IN  IF refused
            THEN /\ req' = req
                 /\ resp' = [op |-> "refreshAccessToken", actor |-> "none", status |-> 401,
                             incoming |-> incomingRefreshToken]
            ELSE /\ req' = [req EXCEPT ![r] = [op |-> "refreshAccessToken", actor |-> IdOf(user),
                                               pc |-> "generate", incoming |-> incomingRefreshToken,
                                               refreshToken |-> NoToken]]
                 /\ resp' = NoResp

\* The user schema is not part of the controllers: whether it declares
\* username and email unique, and whether it stores email in lower case, is
\* one of these, the same during a behaviour.
Unknown == [unique |-> FALSE, lowercase |-> FALSE, known |-> FALSE]
Schemas ==
    {[unique |-> FALSE, lowercase |-> FALSE, known |-> TRUE],
     [unique |-> TRUE, lowercase |-> FALSE, known |-> TRUE],
     [unique |-> TRUE, lowercase |-> TRUE, known |-> TRUE]}
SchemaOf(sc) == IF schema.known THEN {schema} ELSE sc.schemas
\* The value the store keeps for an email under a schema.
StoredEmail(s, email) == IF s.lowercase THEN ToLowerCase(email) ELSE email
\* The users other than `self` holding `username` or the stored `email`
Holders(self, username, email) ==
    {u \in AccountIds \ {self} :
        users[u].exists /\ (users[u].username = username \/ users[u].email = email)}

\* Temporary files multer saves before a handler runs.
NoPath == [slot |-> 0, field |-> "none"]
TempPath(r, field, attached) == IF attached THEN [slot |-> r, field |-> field] ELSE NoPath

\* Mutant: a failed upload leaves the local file.
UploadOnCloudinary_KeepsOnFailure(fs, localFilePath, uploaded) ==
    IF localFilePath = NoPath
    THEN [result |-> FALSE, files |-> fs]
    ELSE IF uploaded /\ localFilePath \in fs
         THEN [result |-> TRUE, files |-> fs \ {localFilePath}]
         ELSE [result |-> FALSE, files |-> fs]

\* uploadOnCloudinary(localFilePath) when the upload has settled: null without
\* a path; unlinkSync after a successful upload; in the catch, unlinkSync when
\* the file exists, and null.  `result` is whether the resources are returned.
UploadOnCloudinary(fs, localFilePath, uploaded) ==
    IF localFilePath = NoPath
    THEN [result |-> FALSE, files |-> fs]
    ELSE IF uploaded /\ localFilePath \in fs
         THEN [result |-> TRUE, files |-> fs \ {localFilePath}]
         ELSE [result |-> FALSE, files |-> IF localFilePath \in fs THEN fs \ {localFilePath} ELSE fs]

\* registerUser up to its first await: 400 when a field trims to '';
\* username.toLowerCase() and email.toLowerCase() throw on a missing field
RegNames == {"undef", "", "alice", "dave", "Dave", "eve"}
RegEmails == {"undef", "", "a@x", "d@x", "D@x"}
RegisterUser_Start(r, sc) ==
    /\ CanStart(r, sc)
    /\ UNCHANGED <<users, issued, schema>>
    /\ \E fullName \in {"", "new"}, email \in RegEmails, username \in RegNames,
          avatar \in BOOLEAN, coverImage \in BOOLEAN :
        /\ files' = files \cup ({TempPath(r, "avatar", avatar), TempPath(r, "coverImage", coverImage)} \ {NoPath})
        /\ Receive(r, IF fullName = "" \/ email = "" \/ username = ""
                      THEN ErrorMiddleware("registerUser", "none", Thrown(400, "All fields are required"))
                      ELSE IF username = "undef" \/ email = "undef"
                           THEN ErrorMiddleware("registerUser", "none", TypeError)
                           ELSE NoResp,
                   [op |-> "registerUser", actor |-> "none", pc |-> "findOne", fullName |-> fullName,
                    email |-> email, username |-> ToLowerCase(username),
                    avatarLocalPath |-> TempPath(r, "avatar", avatar),
                    coverImageLocalPath |-> TempPath(r, "coverImage", coverImage),
                    avatar |-> FALSE])

\* existedUser = await User.findOne({$or: [{username: lower}, {email: lower}]}): 409;
\* 400 without an avatar; then uploadOnCloudinary(avatarLocalPath) is called
RegisterUser_FindOne(r) ==
    /\ req[r].pc = "findOne" /\ req[r].op = "registerUser"
    /\ UNCHANGED <<store, nreq, run, served, accounts>>
    /\ IF Holders("none", req[r].username, ToLowerCase(req[r].email)) # {}
       THEN Throw(r, Thrown(409, "Username or email already exists"))
       ELSE IF req[r].avatarLocalPath = NoPath
            THEN Throw(r, Thrown(400, "Avatar is required"))
            ELSE /\ req' = [req EXCEPT ![r].pc = "uploadAvatar"]
                 /\ resp' = NoResp

\* avatar = await uploadOnCloudinary(avatarLocalPath)
RegisterUser_UploadAvatar(r) ==
    /\ req[r].pc = "uploadAvatar" /\ req[r].op = "registerUser"
    /\ UNCHANGED <<store, nreq, run, served, users, issued, schema>>
    /\ \E uploaded \in BOOLEAN :
        LET avatar == UploadOnCloudinary(files, req[r].avatarLocalPath, uploaded)
        IN  /\ files' = avatar.files
            /\ req' = [req EXCEPT ![r].pc = "uploadCover", ![r].avatar = avatar.result]
            /\ resp' = NoResp

\* coverImage = await uploadOnCloudinary(coverImageLocalPath); 500 without avatar
RegisterUser_UploadCover(r) ==
    /\ req[r].pc = "uploadCover" /\ req[r].op = "registerUser"
    /\ UNCHANGED <<store, nreq, run, served, users, issued, schema>>
    /\ \E uploaded \in BOOLEAN :
        LET coverImage == UploadOnCloudinary(files, req[r].coverImageLocalPath, uploaded)
        IN  /\ files' = coverImage.files
            /\ IF ~req[r].avatar
               THEN Throw(r, Thrown(500, "Avatar file is required"))
               ELSE /\ req' = [req EXCEPT ![r].pc = "create"]
                    /\ resp' = NoResp

\* user = await User.create({fullName, avatar, coverImage, email, password,
\* username: username.toLowerCase()}); a unique index refuses a duplicate
RegisterUser_Create(r, sc) ==
    /\ req[r].pc = "create" /\ req[r].op = "registerUser"
    /\ \E i \in NewUserIds : ~users[i].exists
    /\ UNCHANGED <<store, nreq, run, served, issued, files>>
    /\ \E s \in SchemaOf(sc), id \in {CHOOSE i \in NewUserIds : ~users[i].exists} :
        /\ schema' = s
        /\ IF s.unique /\ Holders(id, req[r].username, StoredEmail(s, req[r].email)) # {}
           THEN Throw(r, DuplicateKey) /\ users' = users
           ELSE /\ users' = [users EXCEPT ![id] =
                                [exists |-> TRUE, username |-> req[r].username,
                                 email |-> StoredEmail(s, req[r].email),
                                 fullName |-> req[r].fullName, refreshToken |-> NoToken]]
                /\ req' = [req EXCEPT ![r].pc = "findById", ![r].actor = id]
                /\ resp' = NoResp

\* createdUser = await User.findById(user._id); 500 when null; the 201 response
RegisterUser_FindById(r) ==
    /\ req[r].pc = "findById" /\ req[r].op = "registerUser"
    /\ UNCHANGED <<store, nreq, run, served, accounts>>
    /\ IF ~users[req[r].actor].exists
       THEN Throw(r, Thrown(500, "User creation failed"))
       ELSE Respond(r, [op |-> "registerUser", actor |-> req[r].actor, status |-> 201,
                        success |-> TRUE, message |-> "User registered successfully", errors |-> <<>>])

\* updateAccountDetails, behind the authentication middleware: 400 without
\* fullName or email
UpdateAccountDetails_Start(r, sc) ==
    /\ CanStart(r, sc)
    /\ UNCHANGED accounts
    /\ \E userId \in sc.users, fullName \in {"undef", "new"}, email \in RegEmails \cup {"b@x"} :
        Receive(r, IF Falsy(fullName) \/ Falsy(email)
                   THEN ErrorMiddleware("updateAccountDetails", userId,
                                        Thrown(400, "Full name and email are required"))
                   ELSE NoResp,
                [op |-> "updateAccountDetails", actor |-> userId, pc |-> "update",
                 fullName |-> fullName, email |-> email])

\* user = await User.findByIdAndUpdate(req.user?._id, {$set: {fullName, email}},
\* {new: true}); a unique index refuses a duplicate; the 200 response
UpdateAccountDetails_Update(r, sc) ==
    /\ req[r].pc = "update" /\ req[r].op = "updateAccountDetails"
    /\ UNCHANGED <<store, nreq, run, served, issued, files>>
    /\ \E s \in SchemaOf(sc) :
        /\ schema' = s
        /\ IF s.unique /\ \E u \in AccountIds \ {req[r].actor} :
                              users[u].exists /\ users[u].email = StoredEmail(s, req[r].email)
           THEN Throw(r, DuplicateKey) /\ users' = users
           ELSE /\ users' = [users EXCEPT ![req[r].actor].fullName = req[r].fullName,
                                          ![req[r].actor].email = StoredEmail(s, req[r].email)]
                /\ Respond(r, [op |-> "updateAccountDetails", actor |-> req[r].actor, status |-> 200,
                               success |-> TRUE, message |-> "Account details updated successfully",
                               errors |-> <<>>])

(***************************************************************************)
(* The store the handlers start from.                                      *)
(***************************************************************************)
VideoDoc(owner, isPublished) ==
    [exists |-> TRUE, owner |-> owner, isPublished |-> isPublished, views |-> 0,
     title |-> "old", description |-> "old", thumbnail |-> "old"]

Init ==
    /\ videos = [v \in VideoIds |-> IF v = "v1" THEN VideoDoc("u1", TRUE) ELSE VideoDoc("u2", FALSE)]
    /\ comments = [c \in CommentIds |-> [exists |-> TRUE, owner |-> "u2", video |-> "v1", content |-> "old"]]
    /\ tweets = [t \in TweetIds |-> [exists |-> TRUE, owner |-> "u1", content |-> "old"]]
    /\ playlists = [p \in PlaylistIds |->
                      [exists |-> TRUE, owner |-> "u1", name |-> "old", description |-> "old", videos |-> <<>>]]
    /\ likes = {}
    /\ subs = {}
    /\ req = [r \in Reqs |-> Idle]
    /\ resp = NoResp
    /\ nreq = 0
    /\ run = EmptyRun
    /\ served = [v \in VideoIds |-> 0]
    /\ users = [u \in AccountIds |-> InitialUser(u)]
    /\ issued = {}
    /\ files = {}
    /\ schema = Unknown

(***************************************************************************)
(* Likes: the three toggle handlers, requests interleaving at every await. *)
(***************************************************************************)
\* Two clients, the observer off.
LikeScope == [users |-> {"u1", "u2"}, maxReq |-> MaxLikeReq, sequential |-> FALSE, observe |-> FALSE]

LikeNext ==
    \E r \in Reqs :
        \/ ToggleVideoLike_Start(r, LikeScope)
        \/ ToggleVideoLike_FindById(r)
        \/ ToggleVideoLike_FindOne(r)
        \/ ToggleVideoLike_Write(r)
        \/ ToggleVideoLike_Count(r)
        \/ ToggleCommentLike_Start(r, LikeScope)
        \/ ToggleCommentLike_FindById(r)
        \/ ToggleCommentLike_FindOne(r)
        \/ ToggleCommentLike_Write(r)
        \/ ToggleCommentLike_Count(r)
        \/ ToggleTweetLike_Start(r, LikeScope)
        \/ ToggleTweetLike_FindById(r)
        \/ ToggleTweetLike_FindOne(r)
        \/ ToggleTweetLike_Write(r)
        \/ ToggleTweetLike_Count(r)

LikeSpec == Init /\ [][LikeNext]_vars

(***************************************************************************)
(* Subscriptions: toggleSubscription alone; two clients subscribe to any   *)
(* of the three channels; observer on.                                     *)
(***************************************************************************)
SubScope == [users |-> {"u1", "u2"}, maxReq |-> MaxSubReq, sequential |-> FALSE, observe |-> TRUE]

SubNext ==
    \E r \in Reqs :
        \/ ToggleSubscription_Start(r, SubScope)
        \/ ToggleSubscription_FindById(r)
        \/ ToggleSubscription_FindOne(r)
        \/ ToggleSubscription_Write(r)
        \/ ToggleSubscription_Count(r)

SubSpec == Init /\ [][SubNext]_vars

(***************************************************************************)
(* Toggles of a like and of a subscription by one client, in any           *)
(* interleaving; the observer follows the pair toggled last.               *)
(***************************************************************************)
ToggleScope == [users |-> {"u1"}, maxReq |-> MaxToggleReq, sequential |-> FALSE, observe |-> TRUE]

ToggleNext ==
    \E r \in Reqs :
        \/ ToggleVideoLike_Start(r, ToggleScope)
        \/ ToggleVideoLike_FindById(r)
        \/ ToggleVideoLike_FindOne(r)
        \/ ToggleVideoLike_Write(r)
        \/ ToggleVideoLike_Count(r)
        \/ ToggleSubscription_Start(r, ToggleScope)
        \/ ToggleSubscription_FindById(r)
        \/ ToggleSubscription_FindOne(r)
        \/ ToggleSubscription_Write(r)
        \/ ToggleSubscription_Count(r)

ToggleSpec == Init /\ [][ToggleNext]_vars

(***************************************************************************)
(* Likes of videos and comments and getVideoById, one request at a time.   *)
(***************************************************************************)
SeqLikeScope == [users |-> {"u1", "u2"}, maxReq |-> MaxSeqReq, sequential |-> TRUE, observe |-> FALSE]

SeqLikeNext ==
    \E r \in Reqs :
        \/ ToggleVideoLike_Start(r, SeqLikeScope)
        \/ ToggleVideoLike_FindById(r)
        \/ ToggleVideoLike_FindOne(r)
        \/ ToggleVideoLike_Write(r)
        \/ ToggleVideoLike_Count(r)
        \/ ToggleCommentLike_Start(r, SeqLikeScope)
        \/ ToggleCommentLike_FindById(r)
        \/ ToggleCommentLike_FindOne(r)
        \/ ToggleCommentLike_Write(r)
        \/ ToggleCommentLike_Count(r)
        \/ GetVideoById_Start(r, SeqLikeScope)
        \/ GetVideoById_FindById(r)
        \/ GetVideoById_Save(r)
        \/ GetVideoById_Aggregate(r)

SeqLikeSpec == Init /\ [][SeqLikeNext]_vars

(***************************************************************************)
(* The owner-gated mutations, requests interleaving at every await.        *)
(***************************************************************************)
GateScope == [users |-> UserIds, maxReq |-> MaxGateReq, sequential |-> FALSE, observe |-> FALSE]

GateNext ==
    \E r \in Reqs :
        \/ UpdateVideo_Start(r, GateScope)
        \/ UpdateVideo_FindById(r)
        \/ UpdateVideo_Upload(r)
        \/ UpdateVideo_Update(r)
        \/ DeleteVideo_Start(r, GateScope)
        \/ DeleteVideo_FindById(r)
        \/ DeleteVideo_Delete(r)
        \/ TogglePublishStatus_Start(r, GateScope)
        \/ TogglePublishStatus_FindById(r)
        \/ TogglePublishStatus_Save(r)
        \/ UpdateTweet_Start(r, GateScope)
        \/ UpdateTweet_FindById(r)
        \/ UpdateTweet_Save(r)
        \/ DeleteTweet_Start(r, GateScope)
        \/ DeleteTweet_FindById(r)
        \/ DeleteTweet_Delete(r)
        \/ UpdateComment_Start(r, GateScope)
        \/ UpdateComment_FindById(r)
        \/ UpdateComment_Save(r)
        \/ UpdateComment_Populate(r)
        \/ DeleteComment_Start(r, GateScope)
        \/ DeleteComment_FindById(r)
        \/ DeleteComment_FindVideo(r)
        \/ DeleteComment_Delete(r)
        \/ AddVideoToPlaylist_Start(r, GateScope)
        \/ AddVideoToPlaylist_FindById(r)
        \/ AddVideoToPlaylist_FindVideo(r)
        \/ AddVideoToPlaylist_Save(r)
        \/ RemoveVideoFromPlaylist_Start(r, GateScope)
        \/ RemoveVideoFromPlaylist_FindById(r)
        \/ RemoveVideoFromPlaylist_Save(r)
        \/ DeletePlaylist_Start(r, GateScope)
        \/ DeletePlaylist_FindById(r)
        \/ DeletePlaylist_Delete(r)
        \/ UpdatePlaylist_Start(r, GateScope)
        \/ UpdatePlaylist_FindById(r)
        \/ UpdatePlaylist_Update(r)

GateSpec == Init /\ [][GateNext]_vars

(***************************************************************************)
(* The paginated listings over a store that likes, subscriptions, the      *)
(* publish flag and the removal of videos change, one request at a time.   *)
(***************************************************************************)
ListScope ==
    [users |-> {"u1", "u2"}, maxReq |-> MaxListReq, sequential |-> TRUE, observe |-> FALSE,
     listLast |-> TRUE]

ListNext ==
    \E r \in Reqs :
        \/ ToggleVideoLike_Start(r, ListScope)
        \/ ToggleVideoLike_FindById(r)
        \/ ToggleVideoLike_FindOne(r)
        \/ ToggleVideoLike_Write(r)
        \/ ToggleVideoLike_Count(r)
        \/ ToggleSubscription_Start(r, ListScope)
        \/ ToggleSubscription_FindById(r)
        \/ ToggleSubscription_FindOne(r)
        \/ ToggleSubscription_Write(r)
        \/ ToggleSubscription_Count(r)
        \/ TogglePublishStatus_Start(r, ListScope)
        \/ TogglePublishStatus_FindById(r)
        \/ TogglePublishStatus_Save(r)
        \/ DeleteVideo_Start(r, ListScope)
        \/ DeleteVideo_FindById(r)
        \/ DeleteVideo_Delete(r)
        \/ GetVideoComments_Start(r, ListScope)
        \/ GetVideoComments_Paginate(r)
        \/ GetAllVideos_Start(r, ListScope)
        \/ GetAllVideos_Paginate(r)
        \/ GetLikedVideos_Start(r, ListScope)
        \/ GetLikedVideos_Paginate(r)
        \/ GetUserTweets_Start(r, ListScope)
        \/ GetUserTweets_FindById(r)
        \/ GetUserTweets_Paginate(r)
        \/ GetUserPlaylists_Start(r, ListScope)
        \/ GetUserPlaylists_FindById(r)
        \/ GetUserPlaylists_Paginate(r)
        \/ GetUserChannelSubscribers_Start(r, ListScope)
        \/ GetUserChannelSubscribers_FindById(r)
        \/ GetUserChannelSubscribers_Paginate(r)
        \/ GetSubscribedChannels_Start(r, ListScope)
        \/ GetSubscribedChannels_FindById(r)
        \/ GetSubscribedChannels_Paginate(r)

ListSpec == Init /\ [][ListNext]_vars

(***************************************************************************)
(* The view counter: getVideoById, updateVideo and togglePublishStatus of  *)
(* one client, requests interleaving at every await.                       *)
(***************************************************************************)
ViewScope == [users |-> {"u1"}, maxReq |-> MaxViewReq, sequential |-> FALSE, observe |-> FALSE]

ViewNext ==
    \E r \in Reqs :
        \/ GetVideoById_Start(r, ViewScope)
        \/ GetVideoById_FindById(r)
        \/ GetVideoById_Save(r)
        \/ GetVideoById_Aggregate(r)
        \/ UpdateVideo_Start(r, ViewScope)
        \/ UpdateVideo_FindById(r)
        \/ UpdateVideo_Upload(r)
        \/ UpdateVideo_Update(r)
        \/ TogglePublishStatus_Start(r, ViewScope)
        \/ TogglePublishStatus_FindById(r)
        \/ TogglePublishStatus_Save(r)

ViewSpec == Init /\ [][ViewNext]_vars

(***************************************************************************)
(* The videos of a playlist: addVideoToPlaylist and                        *)
(* removeVideoFromPlaylist of the owner, requests interleaving at every    *)
(* await.                                                                  *)
(***************************************************************************)
PlaylistScope == [users |-> {"u1"}, maxReq |-> MaxPlaylistReq, sequential |-> FALSE, observe |-> FALSE]

PlaylistNext ==
    \E r \in Reqs :
        \/ AddVideoToPlaylist_Start(r, PlaylistScope)
        \/ AddVideoToPlaylist_FindById(r)
        \/ AddVideoToPlaylist_FindVideo(r)
        \/ AddVideoToPlaylist_Save(r)
        \/ RemoveVideoFromPlaylist_Start(r, PlaylistScope)
        \/ RemoveVideoFromPlaylist_FindById(r)
        \/ RemoveVideoFromPlaylist_Save(r)

PlaylistSpec == Init /\ [][PlaylistNext]_vars

(***************************************************************************)
(* The operations on existing entities, the request bodies carrying an     *)
(* owner field, requests interleaving at every await.                      *)
(***************************************************************************)
OwnerScope ==
    [users |-> {"u1", "u2"}, maxReq |-> MaxOwnerReq, sequential |-> FALSE, observe |-> FALSE,
     bodyOwner |-> {"undef", "u3"}]

OwnerNext ==
    \E r \in Reqs :
        \/ UpdateVideo_Start(r, OwnerScope)
        \/ UpdateVideo_FindById(r)
        \/ UpdateVideo_Upload(r)
        \/ UpdateVideo_Update(r)
        \/ TogglePublishStatus_Start(r, OwnerScope)
        \/ TogglePublishStatus_FindById(r)
        \/ TogglePublishStatus_Save(r)
        \/ GetVideoById_Start(r, OwnerScope)
        \/ GetVideoById_FindById(r)
        \/ GetVideoById_Save(r)
        \/ GetVideoById_Aggregate(r)
        \/ UpdateTweet_Start(r, OwnerScope)
        \/ UpdateTweet_FindById(r)
        \/ UpdateTweet_Save(r)
        \/ UpdateComment_Start(r, OwnerScope)
        \/ UpdateComment_FindById(r)
        \/ UpdateComment_Save(r)
        \/ UpdateComment_Populate(r)
        \/ UpdatePlaylist_Start(r, OwnerScope)
        \/ UpdatePlaylist_FindById(r)
        \/ UpdatePlaylist_Update(r)
        \/ AddVideoToPlaylist_Start(r, OwnerScope)
        \/ AddVideoToPlaylist_FindById(r)
        \/ AddVideoToPlaylist_FindVideo(r)
        \/ AddVideoToPlaylist_Save(r)
        \/ RemoveVideoFromPlaylist_Start(r, OwnerScope)
        \/ RemoveVideoFromPlaylist_FindById(r)
        \/ RemoveVideoFromPlaylist_Save(r)

OwnerSpec == Init /\ [][OwnerNext]_vars

(***************************************************************************)
(* Sessions: two users log in, log out and present refresh tokens,         *)
(* requests interleaving at every await.                                   *)
(***************************************************************************)
AuthScope == [users |-> {"u1", "u2"}, maxReq |-> MaxAuthReq, sequential |-> FALSE, observe |-> FALSE]

AuthNext ==
    \E r \in Reqs :
        \/ LoginUser_Start(r, AuthScope)
        \/ LoginUser_FindOne(r)
        \/ LoginUser_IsPasswordCorrect(r)
        \/ GenerateAccessAndRefreshTokens_FindById(r)
        \/ GenerateAccessAndRefreshTokens_Save(r)
        \/ LoginUser_Respond(r)
        \/ LogoutUser_Start(r, AuthScope)
        \/ LogoutUser_Update(r)
        \/ RefreshAccessToken(r, AuthScope)

AuthSpec == Init /\ [][AuthNext]_vars

(***************************************************************************)
(* Accounts: registrations and profile updates, requests interleaving at   *)
(* every await.                                                            *)
(***************************************************************************)
AccountScope ==
    [users |-> {"u1", "u2"}, maxReq |-> MaxAccountReq, sequential |-> FALSE, observe |-> FALSE,
     schemas |-> Schemas]

AccountNext ==
    \E r \in Reqs :
        \/ RegisterUser_Start(r, AccountScope)
        \/ RegisterUser_FindOne(r)
        \/ RegisterUser_UploadAvatar(r)
        \/ RegisterUser_UploadCover(r)
        \/ RegisterUser_Create(r, AccountScope)
        \/ RegisterUser_FindById(r)
        \/ UpdateAccountDetails_Start(r, AccountScope)
        \/ UpdateAccountDetails_Update(r, AccountScope)

AccountSpec == Init /\ [][AccountNext]_vars

(***************************************************************************)
(* Registrations alone, interleaving at every await.                       *)
(***************************************************************************)
RegisterScope ==
    [users |-> {"u1"}, maxReq |-> MaxRegisterReq, sequential |-> FALSE, observe |-> FALSE,
     schemas |-> Schemas]

RegisterNext ==
    \E r \in Reqs :
        \/ RegisterUser_Start(r, RegisterScope)
        \/ RegisterUser_FindOne(r)
        \/ RegisterUser_UploadAvatar(r)
        \/ RegisterUser_UploadCover(r)
        \/ RegisterUser_Create(r, RegisterScope)
        \/ RegisterUser_FindById(r)

RegisterSpec == Init /\ [][RegisterNext]_vars

(***************************************************************************)
(* A video with likes and playlist references is unpublished or deleted,   *)
(* requests interleaving at every await.                                   *)
(***************************************************************************)
OrphanScope == [users |-> {"u1", "u2"}, maxReq |-> MaxOrphanReq, sequential |-> FALSE, observe |-> FALSE]

OrphanNext ==
    \E r \in Reqs :
        \/ ToggleVideoLike_Start(r, OrphanScope)
        \/ ToggleVideoLike_FindById(r)
        \/ ToggleVideoLike_FindOne(r)
        \/ ToggleVideoLike_Write(r)
        \/ ToggleVideoLike_Count(r)
        \/ AddVideoToPlaylist_Start(r, OrphanScope)
        \/ AddVideoToPlaylist_FindById(r)
        \/ AddVideoToPlaylist_FindVideo(r)
        \/ AddVideoToPlaylist_Save(r)
        \/ TogglePublishStatus_Start(r, OrphanScope)
        \/ TogglePublishStatus_FindById(r)
        \/ TogglePublishStatus_Save(r)
        \/ DeleteVideo_Start(r, OrphanScope)
        \/ DeleteVideo_FindById(r)
        \/ DeleteVideo_Delete(r)

OrphanSpec == Init /\ [][OrphanNext]_vars

(***************************************************************************)
(* Claims                                                                  *)
(***************************************************************************)

\* C1: in every reachable state the store holds at most one Like document per
\* (actor, target) pair, under any interleaving of the three like toggles.
C1_AtMostOneLikePerPair ==
    \A d1 \in likes, d2 \in likes :
        (d1.kind = d2.kind /\ d1.target = d2.target /\ d1.likedBy = d2.likedBy) => d1 = d2

\* C2: in every reachable state the store holds at most one Subscription document
\* per (subscriber, channel) pair, under any interleaving of toggleSubscription.
C2_AtMostOneSubscriptionPerPair ==
    \A d1 \in subs, d2 \in subs :
        (d1.subscriber = d2.subscriber /\ d1.channel = d2.channel) => d1 = d2

\* C3: two toggles of a pair executed one after the other, no other request
\* touching the pair, flip the presence state and then restore it:
\* absent -> present -> absent, present -> absent -> present.
C3_TwoTogglesRestorePresence ==
    \A i \in 1..(Len(run.items) - 1) :
        /\ (run.items[i].post > 0) # (run.items[i].pre > 0)
        /\ (run.items[i + 1].post > 0) = (run.items[i].pre > 0)

\* C4 as stated: of three toggles of a pair executed one after the other, the
\* third returns the state the second returned.
C4_ThirdReproducesSecond ==
    Len(run.items) = 3 => run.items[3].res = run.items[2].res

\* C4 as amended: the third toggle returns the negation of the presence state the
\* second one left; from a pair holding at most one document the three results
\* alternate, the third equal to the first and not to the second.
C4_ThirdNegatesStateLeftBySecond ==
    Len(run.items) = 3 =>
        /\ run.items[3].res = ~(run.items[2].post > 0)
        /\ run.items[1].pre <= 1 =>
              /\ run.items[3].res = run.items[1].res
              /\ run.items[3].res # run.items[2].res

\* C4: three toggles in a row of a pair that was absent returned true, false, true.
C4_Witness ==
    /\ Len(run.items) = 3
    /\ run.items[1].pre = 0
    /\ run.items[1].res /\ ~run.items[2].res /\ run.items[3].res

\* C5: the state a toggle returns is the negation of the pair's presence when its
\* write takes effect and equals the pair's presence right after the write.
C5_ToggleIsAtomicCheckThenAct ==
    [][\A r \in Reqs :
          (IsToggle(r) /\ req[r].pc = "write" /\ req'[r].pc = "count") =>
              LET before == PairDocsIn(likes, subs, KeyOf(r))
                  after == PairDocsIn(likes', subs', KeyOf(r))
              IN  /\ req'[r].result = (before = {})
                  /\ req'[r].result = (after # {})]_vars

\* C6: no reachable state holds a Subscription whose subscriber is its channel.
C6_NoSelfSubscription == \A d \in subs : d.subscriber # d.channel

\* Calls i and i + 1 of the run: subscribed then unsubscribed, the second count one
\* less than the first and equal to the channel's count before the first call.
C8_Body(i) ==
    /\ run.items[i].res
    /\ ~run.items[i + 1].res
    /\ run.items[i + 1].cnt = run.items[i].cnt - 1
    /\ run.items[i + 1].cnt = run.items[i].tpre

\* C8 as stated: A (not subscribed to C, A # C) toggles its subscription to C twice
\* in a row, no other request on the pair: subscribed = true then false, and the
\* second subscriberCount is one less than the first and equals C's count before
\* the first call.
C8_SubscribeTwiceInARow ==
    \A i \in 1..(Len(run.items) - 1) :
        (run.key.kind = "channel" /\ run.key.actor # run.key.tgt /\ run.items[i].pre = 0
            /\ C6_NoSelfSubscription)
            => C8_Body(i)

\* C8 as amended: the same, provided no other request on channel C (by any other
\* subscriber) is in flight from the start of the first call to the end of the second.
C8_SubscribeTwiceChannelQuiet ==
    \A i \in 1..(Len(run.items) - 1) :
        (run.key.kind = "channel" /\ run.key.actor # run.key.tgt /\ run.items[i].pre = 0 /\ run.tq)
            => C8_Body(i)

\* C8: A has subscribed to and unsubscribed from a channel that had one other
\* subscriber, the channel quiet meanwhile; the second count is 1.
C8_Witness ==
    /\ run.key.kind = "channel" /\ run.key.actor # run.key.tgt /\ run.tq
    /\ Len(run.items) = 2
    /\ run.items[1].pre = 0 /\ run.items[1].tpre = 1
    /\ run.items[2].cnt = 1

\* The actors whose Like on the video is in the store.
Likers(videoId) ==
    {a \in UserIds : \E d \in likes : d.kind = "video" /\ d.target = videoId /\ d.likedBy = a}

\* C7: with the toggleVideoLike requests executed one at a time, the likeCount
\* in a toggleVideoLike response and in a getVideoById response is the number of
\* actors whose Like on the video is present, and getVideoById's isLiked is true
\* exactly when the requesting actor's Like on the video is present.

C7_LikeCountAndIsLiked ==
    /\ (resp.op = "toggleVideoLike" /\ resp.status = 200) =>
           /\ resp.likeCount = Cardinality(Likers(resp.target))
           /\ resp.liked = (resp.actor \in Likers(resp.target))
    /\ (resp.op = "getVideoById" /\ resp.status = 200) =>
           /\ resp.likeCount = Cardinality(Likers(resp.target))
           /\ resp.isLiked = (resp.actor \in Likers(resp.target))

\* C7: B has liked A's video and A fetches it: likeCount = 1, isLiked(A) = false.
C7_Witness ==
    /\ resp.op = "getVideoById" /\ resp.status = 200
    /\ resp.isPublished /\ resp.actor = resp.owner
    /\ resp.likeCount = 1 /\ ~resp.isLiked

(***************************************************************************)
(* Ownership, read off the store.                                          *)
(***************************************************************************)
VideoOps == {"updateVideo", "deleteVideo", "togglePublishStatus"}
TweetOps == {"updateTweet", "deleteTweet"}
CommentOps == {"updateComment", "deleteComment"}
PlaylistOps == {"updatePlaylist", "deletePlaylist", "addVideoToPlaylist", "removeVideoFromPlaylist"}
GatedOps == VideoOps \cup TweetOps \cup CommentOps \cup PlaylistOps

\* The document a gated request names, in the given collections.
EntityIn(vs, ts, cs, ps, op, id) ==
    IF op \in VideoOps /\ id \in VideoIds THEN vs[id]
    ELSE IF op \in TweetOps /\ id \in TweetIds THEN ts[id]
    ELSE IF op \in CommentOps /\ id \in CommentIds THEN cs[id]
    ELSE IF op \in PlaylistOps /\ id \in PlaylistIds THEN ps[id]
    ELSE NoDoc

Entity(op, id) == EntityIn(videos, tweets, comments, playlists, op, id)

\* The actor owns the video the comment is attached to.
OwnsParentVideo(actor, comment) ==
    /\ comment.video \in VideoIds
    /\ videos[comment.video].exists
    /\ videos[comment.video].owner = actor

\* The entity exists and the actor is not its owner nor, for a comment, the
\* owner of its video.
NonOwner(op, actor, id) ==
    LET e == Entity(op, id)
    IN  /\ e.exists
        /\ e.owner # actor
        /\ op \in CommentOps => ~OwnsParentVideo(actor, e)

\* The actor owns the video of the existing comment, and not the comment.
ParentOwnerOnly(actor, id) ==
    /\ id \in CommentIds
    /\ comments[id].exists
    /\ comments[id].owner # actor
    /\ OwnsParentVideo(actor, comments[id])

\* This step is taken by request r; it answers the request.
Moves(r) == InFlight(r) /\ req'[r] # req[r]
Answers(r) == InFlight(r) /\ req'[r] = Idle

\* The awaits at which a handler reads what its ownership check compares.
GatePcs == {"findById", "findVideoOfComment"}
AtGate(r) == Moves(r) /\ req[r].op \in GatedOps /\ req[r].pc \in GatePcs

\* C9 as stated: a gated request by an actor who is not the owner of the existing
\* entity (for comments: neither the comment's owner nor its video's owner) is
\* answered 403, never gets past the ownership check, and leaves the entity as
\* it was.
C9_NonOwnerGets403 ==
    /\ [](resp.op \in GatedOps /\ NonOwner(resp.op, resp.actor, resp.target) => resp.status = 403)
    /\ [][\A r \in Reqs :
            (AtGate(r) /\ NonOwner(req[r].op, req[r].actor, req[r].target))
            => /\ EntityIn(videos', tweets', comments', playlists', req[r].op, req[r].target)
                  = Entity(req[r].op, req[r].target)
               /\ IF Answers(r) THEN resp'.status = 403 ELSE req'[r].pc \in GatePcs]_vars

\* C9 as amended: such a request is answered 400 when the input validation that
\* precedes the lookup fails, and 403 once it has passed that validation; it never
\* gets past the ownership check and leaves the entity as it was.
C9_NonOwnerRejectedEntityUnchanged ==
    /\ [](resp.op \in GatedOps /\ NonOwner(resp.op, resp.actor, resp.target)
          => resp.status \in {400, 403})
    /\ [][\A r \in Reqs :
            (AtGate(r) /\ NonOwner(req[r].op, req[r].actor, req[r].target))
            => /\ EntityIn(videos', tweets', comments', playlists', req[r].op, req[r].target)
                  = Entity(req[r].op, req[r].target)
               /\ IF Answers(r) THEN resp'.status = 403 ELSE req'[r].pc \in GatePcs]_vars

\* C9: a non-owner's request on an existing entity has just been answered 403.
C9_Witness ==
    /\ resp.op \in GatedOps
    /\ NonOwner(resp.op, resp.actor, resp.target)
    /\ resp.status = 403

NotCommentOwner(actor, id) ==
    id \in CommentIds /\ comments[id].exists /\ comments[id].owner # actor

\* C11: updateComment by any actor other than the comment's owner, the owner of
\* the comment's video included, is rejected (400 by the validation, 403 by the
\* ownership check) and no step of it changes the comment; deleteComment by the
\* comment's owner or by the owner of its video is answered 200 and removes it.
C11_UpdateByOwnerOnly ==
    /\ [](resp.op = "updateComment" /\ NotCommentOwner(resp.actor, resp.target)
          => resp.status \in {400, 403})
    /\ [][\A r \in Reqs :
            /\ (Moves(r) /\ req[r].op = "updateComment"
                  /\ NotCommentOwner(req[r].actor, req[r].target))
               => Answers(r) /\ resp'.status = 403 /\ comments' = comments
            /\ (Answers(r) /\ req[r].op = "deleteComment"
                  /\ req[r].target \in CommentIds /\ comments[req[r].target].exists
                  /\ \/ comments[req[r].target].owner = req[r].actor
                     \/ OwnsParentVideo(req[r].actor, comments[req[r].target]))
               => resp'.status = 200 /\ comments'[req[r].target] = NoDoc]_vars

\* C11: an updateComment with valid content by someone who owns neither the
\* comment nor its video has just been refused, the comment as it was.
C11_Witness ==
    /\ resp.op = "updateComment" /\ resp.status = 403
    /\ NotCommentOwner(resp.actor, resp.target)
    /\ ~OwnsParentVideo(resp.actor, comments[resp.target])
    /\ comments[resp.target].content = "old"

\* Well-formed identifiers of entities that never existed.
MissingIds == {NoVideoId, NoTweetId, NoCommentId, NoPlaylistId}

\* The lookup of the entity a gated request names, finding nothing.
LooksUpNothing(r) ==
    /\ Moves(r) /\ req[r].op \in GatedOps /\ req[r].pc = "findById"
    /\ ~Entity(req[r].op, req[r].target).exists

\* C12 as stated: a gated request naming a well-formed identifier of an entity
\* that does not exist is answered 404, whoever the actor is.
C12_MissingAnswered404 ==
    /\ [](resp.op \in GatedOps /\ resp.target \in MissingIds => resp.status = 404)
    /\ [][\A r \in Reqs : LooksUpNothing(r) => Answers(r) /\ resp'.status = 404]_vars

\* C12 as amended: such a request is never answered 403; it is answered 400 when
\* the input validation that precedes the lookup fails and 404 by the lookup
\* otherwise, whoever the actor is.
C12_MissingNeverForbidden ==
    /\ [](resp.op \in GatedOps /\ resp.target \in MissingIds => resp.status \in {400, 404})
    /\ [][\A r \in Reqs : LooksUpNothing(r) => Answers(r) /\ resp'.status = 404]_vars

\* C12: an actor who never owned anything has just been answered 404 for an
\* entity that is not in the store.
C12_Witness ==
    /\ resp.op \in GatedOps /\ resp.status = 404
    /\ ~Entity(resp.op, resp.target).exists
    /\ resp.actor = "u3"

(***************************************************************************)
(* Paginated listings: what a response says against what the store holds.  *)
(* A listing is answered in the step that reads the store, so the store of *)
(* the state that holds the response is the store the listing read.        *)
(***************************************************************************)
ListingOps ==
    {"getVideoComments", "getAllVideos", "getLikedVideos", "getUserTweets", "getUserPlaylists",
     "getUserChannelSubscribers", "getSubscribedChannels"}
Listed == resp.op \in ListingOps /\ resp.status = 200

\* The records of the listing's aggregation in the store.
Records(op, actor, target, filter) ==
    CASE op = "getVideoComments" -> VideoCommentsPipeline(target)
      [] op = "getAllVideos" -> AllVideosPipeline(filter.query, filter.userId)
      [] op = "getLikedVideos" -> LikedVideosPipeline(actor)
      [] op = "getUserTweets" -> UserTweetsPipeline(target)
      [] op = "getUserPlaylists" -> UserPlaylistsPipeline(target)
      [] op = "getUserChannelSubscribers" -> ChannelSubscribersPipeline(target)
      [] op = "getSubscribedChannels" -> SubscribedChannelsPipeline(target)
      [] OTHER -> {}
Matching == Records(resp.op, resp.actor, resp.target, resp.filter)
TotalItems == Cardinality(Matching)

\* The page and the limit the request stands for.
CurrentPage == Positive(Options(resp.page, resp.limit).page, 1)
Limit == Positive(Options(resp.page, resp.limit).limit, 10)

\* The three shapes of the data of a listing response.
Has(d, field) == field \in DOMAIN d
IsPage(d) == Has(d, "items") /\ Has(d, "totalItems")
IsNoMore(d) == Has(d, "items") /\ Has(d, "nextPage")
IsArray(d) == Has(d, "array")
Items(d) == IF IsArray(d) THEN d.array ELSE d.items

\* C13: every listing response holds at most `limit` items, and when
\* currentPage * limit >= totalItems it has hasNextPage = false.
C13_AtMostLimitAndLastPageHasNoNext ==
    Listed =>
        /\ Len(Items(resp.data)) <= Limit
        /\ CurrentPage * Limit >= TotalItems
              => Has(resp.data, "hasNextPage") /\ resp.data.hasNextPage = FALSE

\* Values of page and limit that are missing, non-numeric, zero or negative.
InvalidNumbers == {"undef", "abc", "0", "-2"}

BeyondLastPage == CurrentPage > 1 /\ (CurrentPage - 1) * Limit >= TotalItems

\* C15: a page beyond the last one is answered with success and data holding
\* an empty item array, hasNextPage = false and hasPrevPage = true.
C15_BeyondLastPageEmptyWithFlags ==
    Listed /\ BeyondLastPage =>
        /\ Len(Items(resp.data)) = 0
        /\ Has(resp.data, "hasNextPage") /\ resp.data.hasNextPage = FALSE
        /\ Has(resp.data, "hasPrevPage") /\ resp.data.hasPrevPage = TRUE

\* C16: the comments of a video that has none, asked with page = 1 and
\* limit = 10, are answered with success and data of the paginated shape: an
\* empty item array, a total count of 0 and hasNextPage = false.
C16_NoCommentsPaginatedShape ==
    Listed /\ resp.op = "getVideoComments" /\ TotalItems = 0 /\ resp.page = "1" /\ resp.limit = "10" =>
        /\ IsPage(resp.data)
        /\ Len(resp.data.items) = 0 /\ resp.data.totalItems = 0
        /\ Has(resp.data, "hasNextPage") /\ resp.data.hasNextPage = FALSE

\* The records that satisfy the filter of the answered listing, read off the
\* store, and the document each is shown as.
Satisfying ==
    CASE resp.op = "getAllVideos" ->
            {v \in VideoIds :
                /\ videos[v].exists /\ videos[v].isPublished
                /\ resp.filter.query \in {"old", "new"}
                      => resp.filter.query \in {videos[v].title, videos[v].description}
                /\ resp.filter.userId # NoParam => videos[v].owner = resp.filter.userId.id}
      [] resp.op = "getLikedVideos" ->
            {d \in likes : d.kind = "video" /\ d.likedBy = resp.actor /\ d.target \in VideoIds
                           /\ videos[d.target].exists}
      [] resp.op = "getUserChannelSubscribers" -> {d \in subs : d.channel = resp.target}
      [] resp.op = "getSubscribedChannels" -> {d \in subs : d.subscriber = resp.target}
      [] resp.op = "getVideoComments" ->
            {c \in CommentIds : comments[c].exists /\ comments[c].video = resp.target}
      [] resp.op = "getUserTweets" -> {t \in TweetIds : tweets[t].exists /\ tweets[t].owner = resp.target}
      [] resp.op = "getUserPlaylists" ->
            {p \in PlaylistIds : playlists[p].exists /\ playlists[p].owner = resp.target}
      [] OTHER -> {}
ShownAs(rec) ==
    CASE resp.op = "getLikedVideos" -> rec.target
      [] resp.op = "getUserChannelSubscribers" -> rec.subscriber
      [] resp.op = "getSubscribedChannels" -> rec.channel
      [] OTHER -> rec

\* C17: the total count a listing reports is the number of records that
\* satisfy the filter of the listing (published videos matching query and
\* userId; likes and subscriptions that survive the join), and every item
\* returned is one of them.
C17_TotalAndItemsOfTheSameFilter ==
    Listed /\ IsPage(resp.data) =>
        /\ resp.data.totalItems = Cardinality(Satisfying)
        /\ \A i \in 1..Len(resp.data.items) : \E rec \in Satisfying : ShownAs(rec) = resp.data.items[i]

\* C17: the videos of owner u1 that match "old" are listed while an
\* unpublished video exists: v1 alone is returned and counted.
C17_Witness ==
    /\ Listed /\ resp.op = "getAllVideos" /\ IsPage(resp.data)
    /\ resp.filter.query = "old" /\ resp.filter.userId.id = "u1"
    /\ resp.data.items = <<"v1">> /\ resp.data.totalItems = 1
    /\ \E v \in VideoIds : videos[v].exists /\ ~videos[v].isPublished

\* C18: the view counter of a video never decreases, whatever the
\* interleaving of getVideoById, updateVideo and togglePublishStatus.
C18_ViewsNeverDecrease ==
    [][\A v \in VideoIds : videos[v].exists /\ videos'[v].exists => videos'[v].views >= videos[v].views]_vars

\* C19: once the requests are answered, the view counter of a video is as
\* many higher than at the start (0) as getVideoById requests on the video
\* were answered with success.
C19_ViewsCountSuccessfulFetches ==
    Quiescent => \A v \in VideoIds : videos[v].exists => videos[v].views = served[v]

\* The video references a playlist holds.
Elements(arr) == {arr[i] : i \in 1..Len(arr)}
NoRepeats(arr) == \A i, j \in 1..Len(arr) : i # j => arr[i] # arr[j]

\* An add request at its check of the playlist's videos, for a published
\* video the stored playlist holds.
AddsPresentVideo(r) ==
    /\ Moves(r) /\ req[r].op = "addVideoToPlaylist" /\ req[r].pc = "findVideo"
    /\ Exists(playlists, PlaylistIds, req[r].target)
    /\ Exists(videos, VideoIds, Cast(req[r].videoId))
    /\ videos[Cast(req[r].videoId)].isPublished
    /\ Cast(req[r].videoId) \in Elements(playlists[req[r].target].videos)

\* C20: no playlist ever holds a video reference twice, and an add of a video
\* the playlist holds is rejected and leaves the playlist as it is.
C20_NoVideoTwiceInPlaylist ==
    /\ [](\A p \in PlaylistIds : playlists[p].exists => NoRepeats(playlists[p].videos))
    /\ [][\A r \in Reqs : AddsPresentVideo(r)
              => Answers(r) /\ resp'.status = 400 /\ playlists' = playlists]_vars

\* The owners of the entities in a store.
OwnersIn(vs, ts, cs, ps) ==
    [kind \in {"video", "tweet", "comment", "playlist"} |->
        CASE kind = "video" -> [v \in VideoIds |-> IF vs[v].exists THEN vs[v].owner ELSE "none"]
          [] kind = "tweet" -> [t \in TweetIds |-> IF ts[t].exists THEN ts[t].owner ELSE "none"]
          [] kind = "comment" -> [c \in CommentIds |-> IF cs[c].exists THEN cs[c].owner ELSE "none"]
          [] OTHER -> [p \in PlaylistIds |-> IF ps[p].exists THEN ps[p].owner ELSE "none"]]

\* C21: no step of updateVideo, togglePublishStatus, getVideoById, updateTweet,
\* updateComment, updatePlaylist, addVideoToPlaylist or removeVideoFromPlaylist
\* changes the owner of a video, tweet, comment or playlist, whatever owner
\* the request body carries.
C21_OwnerImmutable ==
    [][OwnersIn(videos', tweets', comments', playlists') = OwnersIn(videos, tweets, comments, playlists)]_vars

\* C21: an updateComment whose body names u3 as owner has saved the new content
\* and is about to answer, the comment still u2's; an updateVideo has written
\* the new title of v1, still u1's.
C21_Witness ==
    \E r \in Reqs :
        /\ InFlight(r) /\ req[r].op = "updateComment" /\ req[r].pc = "populate"
        /\ req[r].bodyOwner = "u3"
        /\ comments[req[r].target].content = "new" /\ comments[req[r].target].owner = "u2"
        /\ videos["v1"].title = "new" /\ videos["v1"].owner = "u1"

\* The step answers a refreshAccessToken request.
Refreshes == resp'.op = "refreshAccessToken" /\ nreq' # nreq
\* A token of the server that is not the one stored for its user.
Superseded(token) == token \in issued /\ users[token.sub].refreshToken # token

\* C22: a refreshAccessToken request presenting a refresh token the server
\* issued earlier and has since replaced (login, refresh) or cleared (logout)
\* is answered 401, and the step issues no token and stores none.
C22_SupersededTokenRejected ==
    [][Refreshes /\ Superseded(resp'.incoming)
          => resp'.status = 401 /\ issued' = issued /\ users' = users]_vars

\* C22: u1 logged in twice; the token of the first login, replaced by the
\* second, has been presented and refused.
C22_Witness ==
    /\ resp.op = "refreshAccessToken" /\ resp.status = 401
    /\ resp.incoming \in issued
    /\ users[resp.incoming.sub].refreshToken \in issued
    /\ users[resp.incoming.sub].refreshToken # resp.incoming

\* C27: a refreshAccessToken request presenting the refresh token stored for
\* its user is answered 200 with an access token and a new refresh token, and
\* the refresh token of the response is the one stored for the user.
C27_StoredTokenRefreshed ==
    [][(/\ Refreshes
        /\ resp'.incoming \in issued
        /\ users[resp'.incoming.sub].refreshToken = resp'.incoming)
       => (/\ resp'.status = 200
           /\ resp'.refreshToken # resp'.incoming
           /\ resp'.refreshToken = users'[resp'.incoming.sub].refreshToken)]_vars

\* Two users with the same username or the same email, letter case apart.
Share(u, v) ==
    /\ u # v /\ users[u].exists /\ users[v].exists
    /\ \/ ToLowerCase(users[u].username) = ToLowerCase(users[v].username)
       \/ ToLowerCase(users[u].email) = ToLowerCase(users[v].email)
\* The username or email of the registration r is that of a user, letter case apart.
Taken(r) ==
    \E u \in AccountIds :
        /\ users[u].exists
        /\ \/ ToLowerCase(users[u].username) = ToLowerCase(req[r].username)
           \/ ToLowerCase(users[u].email) = ToLowerCase(req[r].email)

\* C23: no two users share a username or an email, letter case apart, and the
\* lookup and the creation of a registerUser request whose username or email
\* is that of an existing user answer 409 and create no user.
C23_UniqueAtCreation ==
    /\ [](\A u, v \in AccountIds : ~Share(u, v))
    /\ [][\A r \in Reqs :
            (/\ Moves(r) /\ req[r].op = "registerUser"
             /\ req[r].pc \in {"findOne", "create"}
             /\ Taken(r))
            => (resp'.status = 409 /\ users' = users)]_vars

\* The local file of the upload a registerUser request is waiting for.
PendingUpload(r) ==
    IF req[r].pc = "uploadAvatar" THEN req[r].avatarLocalPath
    ELSE IF req[r].pc = "uploadCover" THEN req[r].coverImageLocalPath
    ELSE NoPath

\* C24: when uploadOnCloudinary returns for a local file, with the resources
\* or with null, the file is no longer in the temporary directory; and a file
\* leaves the directory only in the step in which its upload has settled.
C24_TempFileRemovedOnceSettled ==
    [][/\ \A r \in Reqs : Moves(r) /\ PendingUpload(r) # NoPath => PendingUpload(r) \notin files'
       /\ \A p \in files \ files' : \E r \in Reqs : Moves(r) /\ PendingUpload(r) = p]_vars

\* C24: the avatar and the cover image of one registration were uploaded (or
\* the cover failed), the avatar upload of another failed and was answered
\* 500; none of the files is left.
C24_Witness ==
    /\ \E r \in Reqs :
        /\ req[r].pc = "create" /\ req[r].avatar
        /\ req[r].avatarLocalPath # NoPath /\ req[r].coverImageLocalPath # NoPath
    /\ resp.op = "registerUser" /\ resp.status = 500 /\ resp.message = "Avatar file is required"
    /\ files = {}

\* C26: the response to an error that is not an ApiError is 500 with
\* success = false and a body that holds nothing of the underlying error.
C26_UnhandledErrorGeneric ==
    ("message" \in DOMAIN resp /\ resp.message = "Internal Server Error")
        => /\ resp.status = 500 /\ ~resp.success
           /\ \A i \in 1..Len(resp.errors) : resp.errors[i] \notin {TypeError.message, DuplicateKey.message}

C25_DeleteVideoSingleRecord ==
    [][\A r \in Reqs :
        Moves(r) /\ req[r].op = "deleteVideo"
            => /\ likes' = likes /\ comments' = comments /\ playlists' = playlists
               /\ \A v \in VideoIds \ {req[r].target} : videos'[v] = videos[v]]_vars

\* C25: v1 has been deleted; a Like on it, the comment c1 on it and the
\* reference to it in playlist p1 are still in the store.
C25_Witness ==
    /\ resp.op = "deleteVideo" /\ resp.status = 200 /\ resp.target = "v1"
    /\ ~videos["v1"].exists
    /\ LikeCountDocuments("video", "v1") > 0
    /\ comments["c1"].exists /\ comments["c1"].video = "v1"
    /\ "v1" \in Elements(playlists["p1"].videos)

\* C28: the video lookup of a toggleVideoLike request whose actor holds a Like
\* on the video does not refuse the request: the request goes on to find and
\* delete the Like, whatever has become of the video.
C28_LikeCanBeWithdrawn ==
    [][\A r \in Reqs :
        (/\ Moves(r) /\ req[r].op = "toggleVideoLike" /\ req[r].pc = "findById"
         /\ LikeFindOne("video", req[r].target, req[r].actor) # {})
        => req'[r] # Idle]_vars

\* C29: every video a playlist references exists and is published.
C29_PlaylistVideosPublished ==
    \A p \in PlaylistIds :
        playlists[p].exists =>
            \A v \in Elements(playlists[p].videos) : videos[v].exists /\ videos[v].isPublished

=============================================================================
